---- MODULE Spec2Model ----
(***************************************************************************)
(* Exponential leveling system of the chore application.                   *)
(*                                                                         *)
(* The server module (levelingSystem, CommonJS) and its client mirror      *)
(* (client/src/utils/levelingSystem.ts) convert a kid's accumulated point  *)
(* total into a level, a progress report and a level-up report.  The       *)
(* functions are pure; each is an operator below, computed the way the     *)
(* JavaScript computes it, including the IEEE-754 double arithmetic of     *)
(* Math.pow, "/" and "*" followed by Math.floor.  The state machine calls  *)
(* the exported functions on inputs drawn from bounded sets and records    *)
(* the call and what it returned.                                          *)
(***************************************************************************)
EXTENDS Integers, Sequences, FiniteSets, TLC

(***************************************************************************)
(* Program constants.  MULTIPLIER is 1.5, held as the exact ratio 3/2.     *)
(***************************************************************************)
BASE_POINTS == 50
MULTIPLIER_NUM == 3
MULTIPLIER_DEN == 2

(***************************************************************************)
(* Bounds of the model.                                                    *)
(*   MaxPoints  largest point total passed to the engine                   *)
(*   MaxDebt    point totals go down to -MaxDebt                           *)
(*   MaxLevel   largest level passed to the two cost functions             *)
(*   MaxBelow   levels go down to 1 - MaxBelow                             *)
(*   MaxLoopTotal  a large total, which takes the loop of                  *)
(*                 calculateLevelFromPoints past level 12                  *)
(***************************************************************************)
MaxPoints == 420
MaxDebt == 8
MaxLevel == 9
MaxBelow == 4
MaxLoopTotal == 13000

PointTotals == (0 - MaxDebt)..MaxPoints
Levels == (1 - MaxBelow)..MaxLevel

(***************************************************************************)
(* State of the leveling engine and of one call into it.                   *)
(*   config      the two module constants BASE_POINTS and MULTIPLIER, as   *)
(*               the module was loaded with (never changed afterwards)     *)
(*   fn          name of the exported function called ("none" between      *)
(*               calls)                                                    *)
(*   args        its arguments                                             *)
(*   ret         its return value                                          *)
(*   pc, loopLevel, loopPointsUsed, tests                                  *)
(*               the frame of calculateLevelFromPoints when the call is    *)
(*               followed statement by statement: where it is, its locals  *)
(*               level and pointsUsed, and how often the loop's test has   *)
(*               been evaluated                                            *)
(***************************************************************************)
VARIABLES config, fn, args, ret, pc, loopLevel, loopPointsUsed, tests

frame == <<pc, loopLevel, loopPointsUsed, tests>>

(***************************************************************************)
(*   calls       the calls of several callers at once: per caller the      *)
(*               function called, its arguments, the statement reached,    *)
(*               the locals of the function and its return value           *)
(***************************************************************************)
VARIABLES calls

engine == <<fn, args, ret, pc, loopLevel, loopPointsUsed, tests, calls>>

(***************************************************************************)
(* State of the server: the rows of its SQLite tables that the handlers of *)
(* the kid, parent and auth routes read and write, and the requests in     *)
(* flight.                                                                 *)
(*   kids         kids table: per id of a row the columns points and level *)
(*   tasks        tasks table: per id of a row the columns status, points  *)
(*                and kid_id                                               *)
(*   rewards      rewards table: per id of a row the columns points_cost,  *)
(*                is_active and parent_id                                  *)
(*   redemptions  reward_redemptions table: its rows in the order of their *)
(*                insertion, with the columns kid_id and reward_id         *)
(*   requests     per connection the request being served, or the run of   *)
(*                the seeding script: which handler, the await it has      *)
(*                reached, its locals and its response                     *)
(*   accepted     what was accepted so far of the MaxRequests followed     *)
(*   sqlite_sequence  the table SQLite keeps for AUTOINCREMENT: per table  *)
(*                the largest id a row of it was ever given                *)
(*   magicLinks   magic_links table: its rows in the order of their        *)
(*                insertion (the index is the id), with the columns email, *)
(*                token and used, and whether expires_at has passed        *)
(*   parents      parents table: per id of a row the column email          *)
(* A table is a function on the ids of the rows it has; an INSERT adds     *)
(* the id after the largest ever given, a DELETE takes ids out of its      *)
(* domain.  The requests to the task, reward and kid routes are those of   *)
(* one family: they carry the id of its parent, FamilyParent.  The kids    *)
(* and tasks are the family's, so the parent_id conditions on them hold;   *)
(* the rewards table also holds the rows seeded for other parents.         *)
(***************************************************************************)
VARIABLES kids, tasks, rewards, redemptions, requests, accepted,
          sqlite_sequence, magicLinks, parents

server == <<kids, tasks, rewards, redemptions, requests, accepted,
           sqlite_sequence, magicLinks, parents>>

vars == <<config, fn, args, ret, pc, loopLevel, loopPointsUsed, tests, calls,
          kids, tasks, rewards, redemptions, requests, accepted,
          sqlite_sequence, magicLinks, parents>>

ReferenceConfig ==
    [BASE_POINTS |-> BASE_POINTS,
     MULTIPLIER_NUM |-> MULTIPLIER_NUM,
     MULTIPLIER_DEN |-> MULTIPLIER_DEN]

(***************************************************************************)
(* Integer power, the exact value of Math.pow on small integer arguments.  *)
(***************************************************************************)
RECURSIVE Pow(_, _)
Pow(b, n) == IF n = 0 THEN 1 ELSE b * Pow(b, n - 1)

Abs(x) == IF x < 0 THEN 0 - x ELSE x

(***************************************************************************)
(* getPointsRequiredForLevelUp(currentLevel):                              *)
(*   Math.floor(BASE_POINTS * Math.pow(MULTIPLIER, currentLevel - 1))      *)
(* For an exponent n >= 0 the double 1.5^n = 3^n / 2^n and its product     *)
(* with 50 are exact (25 * 3^n < 2^53 for n <= 30), so the floor is the    *)
(* integer quotient.  For n < 0 the real 50 * 2^m / 3^m (m = -n) is never  *)
(* an integer and lies at least 1/3^m from one, far more than the rounding *)
(* error of the double, so the floor is again the integer quotient.        *)
(***************************************************************************)
\* Faulty variant: the product rounded to nearest (Math.round) instead of floored.
getPointsRequiredForLevelUp_round(currentLevel) ==
    LET n == currentLevel - 1
    IN  IF n >= 0
        THEN (2 * BASE_POINTS * Pow(MULTIPLIER_NUM, n) + Pow(MULTIPLIER_DEN, n))
                 \div (2 * Pow(MULTIPLIER_DEN, n))
        ELSE (2 * BASE_POINTS * Pow(MULTIPLIER_DEN, 0 - n) + Pow(MULTIPLIER_NUM, 0 - n))
                 \div (2 * Pow(MULTIPLIER_NUM, 0 - n))

\* Faulty variant: the power replaced by a product with currentLevel - 1,
\* which makes the first step cost 0.
getPointsRequiredForLevelUp_linear(currentLevel) ==
    (config.BASE_POINTS * config.MULTIPLIER_NUM * (currentLevel - 1))
        \div config.MULTIPLIER_DEN

getPointsRequiredForLevelUp(currentLevel) ==
    LET n == currentLevel - 1
    IN  IF n >= 0
        THEN (config.BASE_POINTS * Pow(config.MULTIPLIER_NUM, n))
                 \div Pow(config.MULTIPLIER_DEN, n)
        ELSE (config.BASE_POINTS * Pow(config.MULTIPLIER_DEN, 0 - n))
                 \div Pow(config.MULTIPLIER_NUM, 0 - n)

(***************************************************************************)
(* getPointsRequiredForLevel(level): 0 for level <= 1, otherwise the sum   *)
(* of the step costs of levels 1 .. level-1, accumulated by the for loop.  *)
(* The trailing Math.floor acts on an integer sum and leaves it as it is.  *)
(***************************************************************************)
RECURSIVE SumLevelUps(_, _, _)
SumLevelUps(i, level, totalPoints) ==
    IF i < level
    THEN SumLevelUps(i + 1, level, totalPoints + getPointsRequiredForLevelUp(i))
    ELSE totalPoints

\* Faulty variant: the cost of the level itself is included (guard "level < 1",
\* loop "i <= level").
RECURSIVE SumLevelUps_inclusive(_, _, _)
SumLevelUps_inclusive(i, level, totalPoints) ==
    IF i <= level
    THEN SumLevelUps_inclusive(i + 1, level, totalPoints + getPointsRequiredForLevelUp(i))
    ELSE totalPoints

getPointsRequiredForLevel_inclusive(level) ==
    IF level < 1 THEN 0 ELSE SumLevelUps_inclusive(1, level, 0)

\* Faulty variant: the loop starts at i = 2 and skips the cost of level 1.
getPointsRequiredForLevel_skipFirst(level) ==
    IF level <= 1 THEN 0 ELSE SumLevelUps(2, level, 0)

getPointsRequiredForLevel(level) ==
    IF level <= 1 THEN 0 ELSE SumLevelUps(1, level, 0)

(***************************************************************************)
(* calculateLevelFromPoints(totalPoints): 1 for a negative total,          *)
(* otherwise the while (true) loop, one LevelLoop unfolding per iteration. *)
(***************************************************************************)
\* Faulty variant: the loop breaks on ">=", one point before the threshold is passed.
RECURSIVE LevelLoop_strict(_, _, _)
LevelLoop_strict(totalPoints, level, pointsUsed) ==
    LET pointsNeeded == getPointsRequiredForLevelUp(level)
    IN  IF pointsUsed + pointsNeeded >= totalPoints
        THEN level
        ELSE LevelLoop_strict(totalPoints, level + 1, pointsUsed + pointsNeeded)

\* Faulty variant: the points already used are left out of the test.
RECURSIVE LevelLoop_noAccum(_, _, _)
LevelLoop_noAccum(totalPoints, level, pointsUsed) ==
    LET pointsNeeded == getPointsRequiredForLevelUp(level)
    IN  IF pointsNeeded > totalPoints
        THEN level
        ELSE LevelLoop_noAccum(totalPoints, level + 1, pointsUsed + pointsNeeded)

RECURSIVE LevelLoop(_, _, _)
LevelLoop(totalPoints, level, pointsUsed) ==
    LET pointsNeeded == getPointsRequiredForLevelUp(level)
    IN  IF pointsUsed + pointsNeeded > totalPoints
        THEN level
        ELSE LevelLoop(totalPoints, level + 1, pointsUsed + pointsNeeded)

\* Faulty variant: levels counted from 0 inside the loop, the guard widened to "<= 0".
calculateLevelFromPoints_zeroBased(totalPoints) ==
    IF totalPoints <= 0 THEN 1 ELSE LevelLoop(totalPoints, 0, 0)

\* Faulty variant: a negative total reported as level 0.
calculateLevelFromPoints_negZero(totalPoints) ==
    IF totalPoints < 0 THEN 0 ELSE LevelLoop(totalPoints, 1, 0)

calculateLevelFromPoints(totalPoints) ==
    IF totalPoints < 0 THEN 1 ELSE LevelLoop(totalPoints, 1, 0)

(***************************************************************************)
(* Math.floor((a / b) * 100) on doubles, for integers a and b > 0, in      *)
(* integer arithmetic.                                                     *)
(*                                                                         *)
(* When 100*|a|/b is not an integer it lies at least 1/b from one, far     *)
(* more than the rounding error of the two operations, so the floor is the *)
(* floor of the exact quotient.  When it is an integer k, a/b is the real  *)
(* k/100 and the double result is fl(100 * fl(k/100)), which can miss k by *)
(* one unit in the last place; the floor then drops to k-1.                *)
(*                                                                         *)
(* RoundTripDeviation(k) is the sign of fl(100 * fl(k/100)) - k for k >= 1.*)
(* fl(k/100) = m / 2^e with 2^52 <= m < 2^53, so e = 52 + j where          *)
(* 100 <= k * 2^j < 200, and m is k * 2^e / 100 rounded to nearest (never  *)
(* a tie: k * 2^e is a multiple of 4, 50 is not).  Then                    *)
(* 100 * fl(k/100) = k + r / 2^e with r = 100*m - k*2^e, -50 < r < 50,     *)
(* and the product rounds away from k exactly when |r| / 2^e exceeds half  *)
(* the spacing of doubles at k, that is when k * 2^j < 128 and |r| > 32.   *)
(*                                                                         *)
(* A zero divisor gives the doubles NaN (0/0), Infinity or -Infinity,      *)
(* which Math.floor returns unchanged.                                     *)
(***************************************************************************)
RECURSIVE Pow2Mod100(_)
Pow2Mod100(e) == IF e = 0 THEN 1 ELSE (2 * Pow2Mod100(e - 1)) % 100

RECURSIVE BinadeShift(_, _)
BinadeShift(k, j) ==
    IF k * Pow(2, j) < 100 THEN BinadeShift(k, j + 1) ELSE j

RECURSIVE BinadeDrop(_, _)
BinadeDrop(k, d) ==
    IF k >= 200 * Pow(2, d) THEN BinadeDrop(k, d + 1) ELSE d

RoundTripDeviation(k) ==
    IF k % 25 = 0
    THEN 0
    ELSE LET j   == IF k < 200 THEN BinadeShift(k, 0) ELSE 0 - BinadeDrop(k, 0)
             low == IF j >= 0 THEN k * Pow(2, j) < 128 ELSE k < 128 * Pow(2, 0 - j)
             t   == (k * Pow2Mod100(52 + j)) % 100
             r   == IF t < 50 THEN 0 - t ELSE 100 - t
         IN  IF ~low THEN 0
             ELSE IF r > 32 THEN 1
             ELSE IF r < 0 - 32 THEN 0 - 1
             ELSE 0

\* Faulty variant: Math.round in place of Math.floor.
FloorPercent_round(a, b) == (200 * a + b) \div (2 * b)

FloorPercent(a, b) ==
    IF b = 0
    THEN IF a = 0 THEN "NaN" ELSE IF a > 0 THEN "Infinity" ELSE "-Infinity"
    ELSE IF a = 0
    THEN 0
    ELSE LET n   == 100 * Abs(a)
             k   == n \div b
             rem == n % b
         IN  IF a > 0
             THEN IF rem # 0 THEN k
                  ELSE IF RoundTripDeviation(k) = 0 - 1 THEN k - 1 ELSE k
             ELSE IF rem # 0 THEN 0 - k - 1
                  ELSE IF RoundTripDeviation(k) = 1 THEN 0 - k - 1 ELSE 0 - k

(***************************************************************************)
(* getLevelProgress(totalPoints): the progress report.                     *)
(* LevelProgressReport is the function's body after its first statement,   *)
(* which sets currentLevel to calculateLevelFromPoints(totalPoints).        *)
(***************************************************************************)
\* Faulty variant: the points of the levels already completed are not subtracted.
getLevelProgress_total(totalPoints) ==
    LET currentLevel == calculateLevelFromPoints(totalPoints)
        pointsRequiredForCurrentLevel == getPointsRequiredForLevel(currentLevel)
        pointsRequiredForNextLevel == getPointsRequiredForLevel(currentLevel + 1)
        pointsInCurrentLevel == totalPoints
        pointsNeededForNextLevel ==
            pointsRequiredForNextLevel - pointsRequiredForCurrentLevel
        progressPercentage == FloorPercent(pointsInCurrentLevel, pointsNeededForNextLevel)
    IN  [currentLevel |-> currentLevel,
         totalPoints |-> totalPoints,
         pointsInCurrentLevel |-> pointsInCurrentLevel,
         pointsNeededForNextLevel |-> pointsNeededForNextLevel,
         progressPercentage |-> progressPercentage,
         pointsToNextLevel |-> pointsNeededForNextLevel - pointsInCurrentLevel]

LevelProgressReport(currentLevel, totalPoints) ==
    LET pointsRequiredForCurrentLevel == getPointsRequiredForLevel(currentLevel)
        pointsRequiredForNextLevel == getPointsRequiredForLevel(currentLevel + 1)
        pointsInCurrentLevel == totalPoints - pointsRequiredForCurrentLevel
        pointsNeededForNextLevel ==
            pointsRequiredForNextLevel - pointsRequiredForCurrentLevel
        progressPercentage == FloorPercent(pointsInCurrentLevel, pointsNeededForNextLevel)
    IN  [currentLevel |-> currentLevel,
         totalPoints |-> totalPoints,
         pointsInCurrentLevel |-> pointsInCurrentLevel,
         pointsNeededForNextLevel |-> pointsNeededForNextLevel,
         progressPercentage |-> progressPercentage,
         pointsToNextLevel |-> pointsNeededForNextLevel - pointsInCurrentLevel]

getLevelProgress(totalPoints) ==
    LevelProgressReport(calculateLevelFromPoints(totalPoints), totalPoints)

(***************************************************************************)
(* checkLevelUp(oldPoints, newPoints): the level-up report.                *)
(***************************************************************************)
\* Faulty variant: leveledUp compares with ">=".
checkLevelUp_flag(oldPoints, newPoints) ==
    LET oldLevel == calculateLevelFromPoints(oldPoints)
        newLevel == calculateLevelFromPoints(newPoints)
    IN  [leveledUp |-> newLevel >= oldLevel,
         oldLevel |-> oldLevel,
         newLevel |-> newLevel,
         levelsGained |-> newLevel - oldLevel]

checkLevelUp(oldPoints, newPoints) ==
    LET oldLevel == calculateLevelFromPoints(oldPoints)
        newLevel == calculateLevelFromPoints(newPoints)
    IN  [leveledUp |-> newLevel > oldLevel,
         oldLevel |-> oldLevel,
         newLevel |-> newLevel,
         levelsGained |-> newLevel - oldLevel]

(***************************************************************************)
(* The client's copy of the module (client/src/utils/levelingSystem.ts),   *)
(* with its own two constants.  It has no checkLevelUp.  The arithmetic of *)
(* the language (Math.pow, "/", "*", Math.floor) is the same on both       *)
(* sides.                                                                  *)
(***************************************************************************)
Client_BASE_POINTS == 50
Client_MULTIPLIER_NUM == 3
Client_MULTIPLIER_DEN == 2

Client_getPointsRequiredForLevelUp(currentLevel) ==
    LET n == currentLevel - 1
    IN  IF n >= 0
        THEN (Client_BASE_POINTS * Pow(Client_MULTIPLIER_NUM, n))
                 \div Pow(Client_MULTIPLIER_DEN, n)
        ELSE (Client_BASE_POINTS * Pow(Client_MULTIPLIER_DEN, 0 - n))
                 \div Pow(Client_MULTIPLIER_NUM, 0 - n)

RECURSIVE Client_SumLevelUps(_, _, _)
Client_SumLevelUps(i, level, totalPoints) ==
    IF i < level
    THEN Client_SumLevelUps(i + 1, level,
                            totalPoints + Client_getPointsRequiredForLevelUp(i))
    ELSE totalPoints

Client_getPointsRequiredForLevel(level) ==
    IF level <= 1 THEN 0 ELSE Client_SumLevelUps(1, level, 0)

RECURSIVE Client_LevelLoop(_, _, _)
Client_LevelLoop(totalPoints, level, pointsUsed) ==
    LET pointsNeeded == Client_getPointsRequiredForLevelUp(level)
    IN  IF pointsUsed + pointsNeeded > totalPoints
        THEN level
        ELSE Client_LevelLoop(totalPoints, level + 1, pointsUsed + pointsNeeded)

Client_calculateLevelFromPoints(totalPoints) ==
    IF totalPoints < 0 THEN 1 ELSE Client_LevelLoop(totalPoints, 1, 0)

Client_getLevelProgress(totalPoints) ==
    LET currentLevel == Client_calculateLevelFromPoints(totalPoints)
        pointsRequiredForCurrentLevel ==
            Client_getPointsRequiredForLevel(currentLevel)
        pointsRequiredForNextLevel ==
            Client_getPointsRequiredForLevel(currentLevel + 1)
        pointsInCurrentLevel == totalPoints - pointsRequiredForCurrentLevel
        pointsNeededForNextLevel ==
            pointsRequiredForNextLevel - pointsRequiredForCurrentLevel
        progressPercentage ==
            FloorPercent(pointsInCurrentLevel, pointsNeededForNextLevel)
    IN  [currentLevel |-> currentLevel,
         totalPoints |-> totalPoints,
         pointsInCurrentLevel |-> pointsInCurrentLevel,
         pointsNeededForNextLevel |-> pointsNeededForNextLevel,
         progressPercentage |-> progressPercentage,
         pointsToNextLevel |-> pointsNeededForNextLevel - pointsInCurrentLevel]

(***************************************************************************)
(* The server's data.  One kid, created by POST /kids with the column      *)
(* defaults points = 0 and level = 1; two pending tasks assigned to the    *)
(* kid, worth 50 and 60 points; one active reward.  Two connections serve  *)
(* requests, so that two handlers can be between awaits at the same time.  *)
(***************************************************************************)
KidIds == {1}

TaskIds == {1, 2}

TaskPoints == <<50, 60>>

RewardIds == {1}

RewardCost == 30

MaxRedemptions == 2

MaxRequests == 3

Connections == {1, 2}

\* SQL NULL and JavaScript null, in a column or a field that otherwise
\* holds a row id or a count.
Null == 0 - 1

\* Request bodies of PUT /kids/:kidId that pass its validators: the keys
\* points and level are optional and are written independently.
EditBodies ==
    {[hasPoints |-> TRUE, points |-> 130, hasLevel |-> FALSE, level |-> 0],
     [hasPoints |-> FALSE, points |-> 0, hasLevel |-> TRUE, level |-> 3]}

NoBody == [hasPoints |-> FALSE, points |-> 0, hasLevel |-> FALSE, level |-> 0]

\* Request bodies of PUT /tasks/:taskId that pass its validators: points is
\* required; kid_id is optional, and a body without it unassigns the task
\* (kid_id || null).
TaskBodies ==
    {[points |-> 100, kid_id |-> 1],
     [points |-> 100, kid_id |-> Null]}

NoTaskBody == [points |-> 0, kid_id |-> Null]

\* Request bodies of PUT /rewards/:rewardId that pass its validators: the
\* keys points_cost and is_active are optional and are written
\* independently.
RewardBodies ==
    {[hasCost |-> TRUE, points_cost |-> 100, hasActive |-> FALSE, is_active |-> 1],
     [hasCost |-> FALSE, points_cost |-> 0, hasActive |-> TRUE, is_active |-> 0]}

NoRewardBody ==
    [hasCost |-> FALSE, points_cost |-> 0, hasActive |-> FALSE, is_active |-> 1]

\* Request bodies of POST /tasks that pass its validators, the same as
\* those of PUT /tasks/:taskId; a body without kid_id creates an unassigned
\* task.
NewTaskBodies == {[points |-> 70, kid_id |-> 1], [points |-> 70, kid_id |-> Null]}

\* The points_cost of the bodies of POST /rewards.
NewRewardCosts == {10}

NoStats ==
    [total_tasks |-> 0, completed_tasks |-> Null, pending_tasks |-> Null,
     total_points_earned |-> Null]

\* A connection with no request.  found tells whether the handler's SELECT
\* of the kid returned a row.  total is an observation, not a local of any
\* handler: the persisted total that the award of a completion was added
\* to.
NoRequest ==
    [op |-> "none", pc |-> "idle", kidId |-> 0, taskId |-> 0, rewardId |-> 0,
     task |-> [points |-> 0], reward |-> [points_cost |-> 0],
     kid |-> [points |-> 0, level |-> 0], found |-> FALSE,
     newLevel |-> 0, body |-> NoBody, taskBody |-> NoTaskBody,
     rewardBody |-> NoRewardBody,
     pendingTasks |-> {}, completedTasks |-> {}, stats |-> NoStats,
     total |-> 0, token |-> "none", linkId |-> 0,
     email |-> "none", parentId |-> 0, seeded |-> 0, todo |-> <<>>,
     res |-> [status |-> 0]]

\* The tokens crypto.randomBytes draws for the magic links; each request
\* of POST /verify-magic-link carries one of them.
Tokens == {"token1", "token2"}

\* The parent of the family, whose id the tokens of its requests carry, and
\* its address.
FamilyParent == 1

FamilyEmail == "parent@family.example"

\* The addresses in the bodies of POST /auth/register and
\* POST /auth/magic-link: the family's and one that no parent has yet.
Emails == {FamilyEmail, "new@family.example"}

\* points_cost of the entries of defaultRewards, in their order.
defaultRewards ==
    <<25, 30, 40, 35, 50, 60, 75, 100, 120, 90, 110, 80, 130, 85,
      250, 200, 300, 350, 280, 400, 500, 600, 800, 750, 900, 1000>>

\* The callers of the engine, and the frame of a caller that is in no call.
Callers == {1, 2}

NoCall ==
    [fn |-> "none", args |-> <<>>, pc |-> "idle", k |-> 0, level |-> 0,
     pointsUsed |-> 0, oldLevel |-> 0, i |-> 0, totalPoints |-> 0, ret |-> 0]

\* The largest of a set of row ids.
MaxId(ids) == CHOOSE x \in ids : \A y \in ids : y <= x

\* The ids of a set in ascending order.
RECURSIVE IdsInOrder(_)
IdsInOrder(ids) ==
    IF ids = {}
    THEN <<>>
    ELSE LET m == MaxId(ids) IN Append(IdsInOrder(ids \ {m}), m)

\* The rows at the start: a kid as INSERT INTO kids leaves it (points 0,
\* level 1), pending tasks assigned to the kid, an active reward and no
\* redemption, all of the family's parent; no magic link.
ServerAtRest ==
    /\ kids = [k \in KidIds |-> [points |-> 0, level |-> 1]]
    /\ tasks = [t \in TaskIds |->
                   [status |-> "pending", points |-> TaskPoints[t], kid_id |-> 1]]
    /\ rewards = [r \in RewardIds |-> [points_cost |-> RewardCost, is_active |-> 1,
                                      parent_id |-> FamilyParent]]
    /\ redemptions = <<>>
    /\ requests = [c \in Connections |-> NoRequest]
    /\ accepted = 0
    /\ sqlite_sequence = [kids |-> MaxId(KidIds), tasks |-> MaxId(TaskIds),
                          rewards |-> MaxId(RewardIds),
                          parents |-> FamilyParent]
    /\ magicLinks = <<>>
    /\ parents = [p \in {FamilyParent} |-> [email |-> FamilyEmail]]

(***************************************************************************)
(* Calls of the exported functions, each taken as one step.  The module    *)
(* keeps no state of its own: a call leaves nothing behind but its result. *)
(***************************************************************************)
Init ==
    /\ config = ReferenceConfig
    /\ fn = "none"
    /\ args = <<>>
    /\ ret = 0
    /\ pc = "idle"
    /\ loopLevel = 0
    /\ loopPointsUsed = 0
    /\ tests = 0
    /\ calls = [p \in Callers |-> NoCall]
    /\ ServerAtRest

CallGetPointsRequiredForLevel ==
    /\ fn = "none"
    /\ \E level \in Levels :
        /\ fn' = "getPointsRequiredForLevel"
        /\ args' = <<level>>
        /\ ret' = getPointsRequiredForLevel(level)
        /\ UNCHANGED <<config, frame, calls, server>>

CallGetPointsRequiredForLevelUp ==
    /\ fn = "none"
    /\ \E currentLevel \in Levels :
        /\ fn' = "getPointsRequiredForLevelUp"
        /\ args' = <<currentLevel>>
        /\ ret' = getPointsRequiredForLevelUp(currentLevel)
        /\ UNCHANGED <<config, frame, calls, server>>

CallCalculateLevelFromPoints ==
    /\ fn = "none"
    /\ \E totalPoints \in PointTotals :
        /\ fn' = "calculateLevelFromPoints"
        /\ args' = <<totalPoints>>
        /\ ret' = calculateLevelFromPoints(totalPoints)
        /\ UNCHANGED <<config, frame, calls, server>>

CallGetLevelProgress ==
    /\ fn = "none"
    /\ \E totalPoints \in PointTotals :
        /\ fn' = "getLevelProgress"
        /\ args' = <<totalPoints>>
        /\ ret' = getLevelProgress(totalPoints)
        /\ UNCHANGED <<config, frame, calls, server>>

CallCheckLevelUp ==
    /\ fn = "none"
    /\ \E oldPoints \in PointTotals, newPoints \in PointTotals :
        /\ fn' = "checkLevelUp"
        /\ args' = <<oldPoints, newPoints>>
        /\ ret' = checkLevelUp(oldPoints, newPoints)
        /\ UNCHANGED <<config, frame, calls, server>>

(***************************************************************************)
(* The caller has consumed the result; nothing of the call is kept.        *)
(***************************************************************************)
Return ==
    /\ fn # "none"
    /\ fn' = "none"
    /\ args' = <<>>
    /\ ret' = 0
    /\ UNCHANGED <<config, frame, calls, server>>

Next ==
    \/ CallGetPointsRequiredForLevel
    \/ CallGetPointsRequiredForLevelUp
    \/ CallCalculateLevelFromPoints
    \/ CallGetLevelProgress
    \/ CallCheckLevelUp
    \/ Return

Spec == Init /\ [][Next]_vars

(***************************************************************************)
(* calculateLevelFromPoints followed statement by statement.               *)
(*                                                                         *)
(* JavaScript does not check the type of totalPoints, so the argument is   *)
(* any number value.  A value is held as [nan, twice]: the number twice/2, *)
(* or NaN when nan is TRUE.  Whole totals have an even twice; n + 0.5 has  *)
(* twice = 2n + 1.  undefined and non-numeric strings convert to NaN in    *)
(* the two comparisons and behave as NaN does: both comparisons are false, *)
(* the break is never taken and the call does not return.  The calls       *)
(* followed here are the calls with a finite total.                        *)
(***************************************************************************)
JsInteger(n) == [nan |-> FALSE, twice |-> 2 * n]

JsHalf(n) == [nan |-> FALSE, twice |-> 2 * n + 1]

IsInteger(t) == ~t.nan /\ t.twice % 2 = 0

WellFormedTotals == {JsInteger(n) : n \in PointTotals}

MalformedTotals == {JsHalf(n) : n \in PointTotals}

\* totalPoints < 0: false for NaN.
JsLessThanZero(t) == ~t.nan /\ t.twice < 0

\* n > totalPoints for an integer n: false for NaN.
JsExceeds(n, t) == ~t.nan /\ 2 * n > t.twice

\* The stepped calls run under the constants of the source.
InitSteps ==
    /\ config = ReferenceConfig
    /\ fn = "none"
    /\ args = <<>>
    /\ ret = 0
    /\ pc = "idle"
    /\ loopLevel = 0
    /\ loopPointsUsed = 0
    /\ tests = 0
    /\ calls = [p \in Callers |-> NoCall]
    /\ ServerAtRest

\* The call and the function's first statements: the early return of 1 for
\* a negative total, otherwise level = 1 and pointsUsed = 0.
EnterCalculateLevelFromPoints ==
    /\ pc = "idle"
    /\ \E t \in WellFormedTotals \cup MalformedTotals \cup {JsInteger(MaxLoopTotal)} :
        /\ fn' = "calculateLevelFromPoints"
        /\ args' = <<t>>
        /\ pc' = IF JsLessThanZero(t) THEN "returned" ELSE "loop"
    /\ loopLevel' = 1
    /\ loopPointsUsed' = 0
    /\ tests' = 0
    /\ UNCHANGED <<config, ret, calls, server>>

\* getLevelProgress begins with the same call, on its own argument.
EnterGetLevelProgress ==
    /\ pc = "idle"
    /\ \E t \in WellFormedTotals :
        /\ fn' = "getLevelProgress"
        /\ args' = <<t>>
        /\ pc' = IF JsLessThanZero(t) THEN "returned" ELSE "loop"
    /\ loopLevel' = 1
    /\ loopPointsUsed' = 0
    /\ tests' = 0
    /\ UNCHANGED <<config, ret, calls, server>>

\* Faulty variant: the test compares pointsUsed alone with the total, so
\* the loop goes one level too far.
LoopTest_noLookahead ==
    /\ pc = "loop"
    /\ LET pointsNeeded == getPointsRequiredForLevelUp(loopLevel)
       IN  IF JsExceeds(loopPointsUsed, args[1])
           THEN /\ pc' = "returned"
                /\ UNCHANGED <<loopLevel, loopPointsUsed>>
           ELSE /\ loopPointsUsed' = loopPointsUsed + pointsNeeded
                /\ loopLevel' = loopLevel + 1
                /\ pc' = "loop"
    /\ tests' = tests + 1
    /\ UNCHANGED <<config, fn, args, ret, calls, server>>

\* One iteration of while (true): the test, then either the break and the
\* return of level, or the two updates.
LoopTest ==
    /\ pc = "loop"
    /\ LET pointsNeeded == getPointsRequiredForLevelUp(loopLevel)
       IN  IF JsExceeds(loopPointsUsed + pointsNeeded, args[1])
           THEN /\ pc' = "returned"
                /\ UNCHANGED <<loopLevel, loopPointsUsed>>
           ELSE /\ loopPointsUsed' = loopPointsUsed + pointsNeeded
                /\ loopLevel' = loopLevel + 1
                /\ pc' = "loop"
    /\ tests' = tests + 1
    /\ UNCHANGED <<config, fn, args, ret, calls, server>>

\* The caller of calculateLevelFromPoints receives the level.
DeliverLevel ==
    /\ pc = "returned"
    /\ fn = "calculateLevelFromPoints"
    /\ ret' = loopLevel
    /\ pc' = "done"
    /\ UNCHANGED <<config, fn, args, loopLevel, loopPointsUsed, tests, calls, server>>

\* The rest of getLevelProgress, from the level that came back.
Report ==
    /\ pc = "returned"
    /\ fn = "getLevelProgress"
    /\ ret' = LevelProgressReport(loopLevel, args[1].twice \div 2)
    /\ pc' = "done"
    /\ UNCHANGED <<config, fn, args, loopLevel, loopPointsUsed, tests, calls, server>>

\* The result has been consumed; the frame is gone.
Finish ==
    /\ pc = "done"
    /\ fn' = "none"
    /\ args' = <<>>
    /\ ret' = 0
    /\ pc' = "idle"
    /\ loopLevel' = 0
    /\ loopPointsUsed' = 0
    /\ tests' = 0
    /\ UNCHANGED <<config, calls, server>>

NextSteps ==
    \/ EnterCalculateLevelFromPoints
    \/ EnterGetLevelProgress
    \/ LoopTest
    \/ DeliverLevel
    \/ Report
    \/ Finish

\* The loop is synchronous code: once entered it keeps running.
SpecSteps == InitSteps /\ [][NextSteps]_vars /\ WF_vars(LoopTest)

\* Calls of calculateLevelFromPoints alone.
NextLoop ==
    \/ EnterCalculateLevelFromPoints
    \/ LoopTest
    \/ DeliverLevel
    \/ Finish

SpecLoop == InitSteps /\ [][NextLoop]_vars /\ WF_vars(LoopTest)

(***************************************************************************)
(* The server's handlers.  A handler is async: it runs from one            *)
(* await dbHelpers.* to the next without interruption, and between two     *)
(* awaits the handlers of other requests run.  Each action below is one    *)
(* database statement together with the code up to the next statement or   *)
(* to the response.  config is the reference configuration throughout.     *)
(* The ids in the path and the token of a request are ids that rows were   *)
(* given, 1 .. sqlite_sequence; the rows may be gone.                      *)
(***************************************************************************)
At(c, op, at) == requests[c].op = op /\ requests[c].pc = at

\* What an activity takes of the MaxRequests that are followed.  An activity
\* that seeds the 26 default rewards is followed beside one request, before,
\* during or after it: two seedings of one parent at a time leave the 52
\* rows in any of their interleavings, more tables than can be gone through.
Fare(op) ==
    IF op \in {"register", "seedExisting", "seedDefault"}
    THEN MaxRequests - 1
    ELSE 1

\* A connection takes a request when it has none or has answered the last.
Accept(c, r) ==
    /\ accepted' = accepted + Fare(r.op)
    /\ requests' = [requests EXCEPT ![c] = r]
    /\ UNCHANGED <<kids, tasks, rewards, redemptions, sqlite_sequence, magicLinks, parents, config, engine>>

Free(c) ==
    /\ requests[c].pc \in {"idle", "responded"}
    /\ accepted < MaxRequests

\* res.json / res.status(...).json
Respond(c, response) ==
    [requests EXCEPT ![c].pc = "responded", ![c].res = response]

\* INSERT INTO a table: the row under its new id.
InsertRow(table, id, row) ==
    [x \in DOMAIN table \cup {id} |-> IF x = id THEN row ELSE table[x]]

\* WHERE id = ? AND parent_id = ? on rewards, in a request of the family.
OwnReward(r) == r \in DOMAIN rewards /\ rewards[r].parent_id = FamilyParent

\* The reward ids in the paths of the family's requests: the ids that rows
\* of the family were given (the rows of other parents stay in the table,
\* so these are the ids ever given less theirs), and the id of one row of
\* another parent.
RewardIdsAsked ==
    LET others == {r \in DOMAIN rewards : rewards[r].parent_id # FamilyParent}
    IN  ((1..sqlite_sequence.rewards) \ others)
            \cup (IF others = {} THEN {} ELSE {MaxId(others)})

\* DELETE FROM a table: the rows with the ids in gone leave it.
DeleteRows(table, gone) == [x \in DOMAIN table \ gone |-> table[x]]

(***************************************************************************)
(* PATCH /tasks/:taskId/complete                                           *)
(***************************************************************************)
StartComplete(c) ==
    /\ Free(c)
    /\ \E k \in 1..sqlite_sequence.kids, t \in 1..sqlite_sequence.tasks :
        Accept(c, [NoRequest EXCEPT !.op = "complete", !.pc = "selectTask",
                                    !.kidId = k, !.taskId = t])

\* SELECT * FROM tasks WHERE id = ? AND kid_id = ? AND status = "pending"
CompleteSelectTask(c) ==
    /\ At(c, "complete", "selectTask")
    /\ LET t == requests[c].taskId
       IN  requests' =
             IF /\ t \in DOMAIN tasks
                /\ tasks[t].kid_id = requests[c].kidId
                /\ tasks[t].status = "pending"
             THEN [requests EXCEPT ![c].pc = "updateTask",
                                   ![c].task = [points |-> tasks[t].points]]
             ELSE Respond(c, [status |-> 404,
                              error |-> "Task not found or already completed"])
    /\ UNCHANGED <<kids, tasks, rewards, redemptions, accepted, sqlite_sequence, magicLinks, parents, config, engine>>

\* UPDATE tasks SET status = "completed" WHERE id = ?
CompleteUpdateTask(c) ==
    /\ At(c, "complete", "updateTask")
    /\ LET t == requests[c].taskId
       IN  tasks' = IF t \in DOMAIN tasks
                    THEN [tasks EXCEPT ![t].status = "completed"]
                    ELSE tasks
    /\ requests' = [requests EXCEPT ![c].pc = "addPoints"]
    /\ UNCHANGED <<kids, rewards, redemptions, accepted, sqlite_sequence, magicLinks, parents, config, engine>>

\* UPDATE kids SET points = points + ? WHERE id = ?
CompleteAddPoints(c) ==
    /\ At(c, "complete", "addPoints")
    /\ LET k == requests[c].kidId
       IN  IF k \in DOMAIN kids
           THEN /\ kids' = [kids EXCEPT ![k].points = @ + requests[c].task.points]
                /\ requests' = [requests EXCEPT ![c].pc = "selectKid",
                                                ![c].total = kids[k].points]
           ELSE /\ kids' = kids
                /\ requests' = [requests EXCEPT ![c].pc = "selectKid"]
    /\ UNCHANGED <<tasks, rewards, redemptions, accepted, sqlite_sequence, magicLinks, parents, config, engine>>

\* The response of the completion handler, from its locals kid, task and
\* newLevel.
CompleteResponse(r) ==
    [status |-> 200,
     pointsEarned |-> r.task.points,
     newTotalPoints |-> r.kid.points + r.task.points,
     leveledUp |-> r.newLevel > r.kid.level,
     newLevel |-> IF r.newLevel > r.kid.level THEN r.newLevel ELSE r.kid.level]

\* The level rule of the handler: Math.floor(kid.points / 100) + 1.
HandlerLevel(points) == (points \div 100) + 1

\* SELECT points, level FROM kids, then newLevel; without a level-up the
\* response follows at once.  Without the row, kid.points throws and the
\* catch block answers.
CompleteSelectKid(c) ==
    /\ At(c, "complete", "selectKid")
    /\ LET k == requests[c].kidId
       IN  requests' =
             IF k \notin DOMAIN kids
             THEN Respond(c, [status |-> 500,
                              error |-> "Failed to complete task"])
             ELSE LET kid == kids[k]
                      r == [requests[c] EXCEPT !.kid = kid,
                                               !.found = TRUE,
                                               !.newLevel = HandlerLevel(kid.points)]
                  IN  IF r.newLevel > kid.level
                      THEN [requests EXCEPT ![c] = [r EXCEPT !.pc = "updateLevel"]]
                      ELSE [requests EXCEPT
                               ![c] = [r EXCEPT !.pc = "responded",
                                                !.res = CompleteResponse(r)]]
    /\ UNCHANGED <<kids, tasks, rewards, redemptions, accepted, sqlite_sequence, magicLinks, parents, config, engine>>

\* UPDATE kids SET level = ? WHERE id = ?, then the response.
CompleteUpdateLevel(c) ==
    /\ At(c, "complete", "updateLevel")
    /\ LET k == requests[c].kidId
       IN  kids' = IF k \in DOMAIN kids
                   THEN [kids EXCEPT ![k].level = requests[c].newLevel]
                   ELSE kids
    /\ requests' = Respond(c, CompleteResponse(requests[c]))
    /\ UNCHANGED <<tasks, rewards, redemptions, accepted, sqlite_sequence, magicLinks, parents, config, engine>>

(***************************************************************************)
(* PUT /tasks/:taskId (parent)                                             *)
(***************************************************************************)
StartPutTask(c) ==
    /\ Free(c)
    /\ \E t \in 1..sqlite_sequence.tasks, b \in TaskBodies :
        Accept(c, [NoRequest EXCEPT !.op = "putTask", !.pc = "selectExisting",
                                    !.taskId = t, !.taskBody = b])

\* SELECT * FROM tasks WHERE id = ? AND parent_id = ?
PutTaskSelectExisting(c) ==
    /\ At(c, "putTask", "selectExisting")
    /\ requests' =
          IF requests[c].taskId \in DOMAIN tasks
          THEN [requests EXCEPT ![c].pc = "update"]
          ELSE Respond(c, [status |-> 404, error |-> "Task not found"])
    /\ UNCHANGED <<kids, tasks, rewards, redemptions, accepted, sqlite_sequence, magicLinks, parents, config, engine>>

\* UPDATE tasks SET ..., points = ?, ..., kid_id = ?, ... WHERE id = ?, then
\* the response.
PutTaskUpdate(c) ==
    /\ At(c, "putTask", "update")
    /\ LET t == requests[c].taskId
           b == requests[c].taskBody
       IN  tasks' = IF t \in DOMAIN tasks
                    THEN [tasks EXCEPT ![t].points = b.points,
                                       ![t].kid_id = b.kid_id]
                    ELSE tasks
    /\ requests' = Respond(c, [status |-> 200,
                               message |-> "Task updated successfully"])
    /\ UNCHANGED <<kids, rewards, redemptions, accepted, sqlite_sequence, magicLinks, parents, config, engine>>

(***************************************************************************)
(* DELETE /tasks/:taskId (parent)                                          *)
(***************************************************************************)
StartDeleteTask(c) ==
    /\ Free(c)
    /\ \E t \in 1..sqlite_sequence.tasks :
        Accept(c, [NoRequest EXCEPT !.op = "deleteTask", !.pc = "selectTask",
                                    !.taskId = t])

\* SELECT * FROM tasks WHERE id = ? AND parent_id = ?
DeleteTaskSelect(c) ==
    /\ At(c, "deleteTask", "selectTask")
    /\ requests' =
          IF requests[c].taskId \in DOMAIN tasks
          THEN [requests EXCEPT ![c].pc = "delete"]
          ELSE Respond(c, [status |-> 404, error |-> "Task not found"])
    /\ UNCHANGED <<kids, tasks, rewards, redemptions, accepted, sqlite_sequence, magicLinks, parents, config, engine>>

\* DELETE FROM tasks WHERE id = ?, then the response.
DeleteTaskDelete(c) ==
    /\ At(c, "deleteTask", "delete")
    /\ tasks' = DeleteRows(tasks, {requests[c].taskId})
    /\ requests' = Respond(c, [status |-> 200,
                               message |-> "Task deleted successfully"])
    /\ UNCHANGED <<kids, rewards, redemptions, accepted, sqlite_sequence, magicLinks, parents, config, engine>>

(***************************************************************************)
(* POST /rewards/:rewardId/redeem                                          *)
(***************************************************************************)
StartRedeem(c) ==
    /\ Free(c)
    /\ Len(redemptions) < MaxRedemptions
    /\ \E k \in 1..sqlite_sequence.kids, r \in RewardIdsAsked :
        Accept(c, [NoRequest EXCEPT !.op = "redeem", !.pc = "selectReward",
                                    !.kidId = k, !.rewardId = r])

\* SELECT * FROM rewards WHERE id = ? AND parent_id = ? AND is_active = 1
RedeemSelectReward(c) ==
    /\ At(c, "redeem", "selectReward")
    /\ LET r == requests[c].rewardId
       IN  requests' =
             IF OwnReward(r) /\ rewards[r].is_active = 1
             THEN [requests EXCEPT
                      ![c].pc = "selectKid",
                      ![c].reward = [points_cost |-> rewards[r].points_cost]]
             ELSE Respond(c, [status |-> 404,
                              error |-> "Reward not found or inactive"])
    /\ UNCHANGED <<kids, tasks, rewards, redemptions, accepted, sqlite_sequence, magicLinks, parents, config, engine>>

\* Faulty variant: the check rejects a total equal to the cost
\* (kid.points <= reward.points_cost).
RedeemSelectKid_inclusive(c) ==
    /\ At(c, "redeem", "selectKid")
    /\ LET k == requests[c].kidId
           cost == requests[c].reward.points_cost
       IN  requests' =
             IF k \notin DOMAIN kids
             THEN Respond(c, [status |-> 500,
                              error |-> "Failed to redeem reward"])
             ELSE IF kids[k].points <= cost
             THEN [requests EXCEPT
                      ![c].kid = [@ EXCEPT !.points = kids[k].points],
                      ![c].found = TRUE,
                      ![c].pc = "responded",
                      ![c].res = [status |-> 400,
                                  error |-> "Not enough points",
                                  required |-> cost,
                                  available |-> kids[k].points]]
             ELSE [requests EXCEPT
                      ![c].kid = [@ EXCEPT !.points = kids[k].points],
                      ![c].found = TRUE,
                      ![c].pc = "deduct"]
    /\ UNCHANGED <<kids, tasks, rewards, redemptions, accepted, sqlite_sequence, magicLinks, parents, config, engine>>

\* SELECT points FROM kids WHERE id = ?, then the affordability check
\* against the cost read with the reward.  Without the row, kid.points
\* throws and the catch block answers.
RedeemSelectKid(c) ==
    /\ At(c, "redeem", "selectKid")
    /\ LET k == requests[c].kidId
           cost == requests[c].reward.points_cost
       IN  requests' =
             IF k \notin DOMAIN kids
             THEN Respond(c, [status |-> 500,
                              error |-> "Failed to redeem reward"])
             ELSE IF kids[k].points < cost
             THEN [requests EXCEPT
                      ![c].kid = [@ EXCEPT !.points = kids[k].points],
                      ![c].found = TRUE,
                      ![c].pc = "responded",
                      ![c].res = [status |-> 400,
                                  error |-> "Not enough points",
                                  required |-> cost,
                                  available |-> kids[k].points]]
             ELSE [requests EXCEPT
                      ![c].kid = [@ EXCEPT !.points = kids[k].points],
                      ![c].found = TRUE,
                      ![c].pc = "deduct"]
    /\ UNCHANGED <<kids, tasks, rewards, redemptions, accepted, sqlite_sequence, magicLinks, parents, config, engine>>

\* UPDATE kids SET points = points - ? WHERE id = ?
RedeemDeduct(c) ==
    /\ At(c, "redeem", "deduct")
    /\ LET k == requests[c].kidId
       IN  kids' = IF k \in DOMAIN kids
                   THEN [kids EXCEPT ![k].points = @ - requests[c].reward.points_cost]
                   ELSE kids
    /\ requests' = [requests EXCEPT ![c].pc = "insert"]
    /\ UNCHANGED <<tasks, rewards, redemptions, accepted, sqlite_sequence, magicLinks, parents, config, engine>>

\* INSERT INTO reward_redemptions (kid_id, reward_id)
RedeemInsert(c) ==
    /\ At(c, "redeem", "insert")
    /\ redemptions' = Append(redemptions, [kid_id |-> requests[c].kidId,
                                           reward_id |-> requests[c].rewardId])
    /\ requests' = [requests EXCEPT ![c].pc = "selectUpdated"]
    /\ UNCHANGED <<kids, tasks, rewards, accepted, sqlite_sequence, magicLinks, parents, config, engine>>

\* SELECT points FROM kids WHERE id = ?, then the response.  Without the
\* row, updatedKid.points throws and the catch block answers.
RedeemSelectUpdated(c) ==
    /\ At(c, "redeem", "selectUpdated")
    /\ LET k == requests[c].kidId
       IN  requests' =
             IF k \in DOMAIN kids
             THEN Respond(c, [status |-> 200,
                              pointsCost |-> requests[c].reward.points_cost,
                              remainingPoints |-> kids[k].points])
             ELSE Respond(c, [status |-> 500,
                              error |-> "Failed to redeem reward"])
    /\ UNCHANGED <<kids, tasks, rewards, redemptions, accepted, sqlite_sequence, magicLinks, parents, config, engine>>

(***************************************************************************)
(* PUT /rewards/:rewardId (parent)                                         *)
(***************************************************************************)
StartPutReward(c) ==
    /\ Free(c)
    /\ \E r \in RewardIdsAsked, b \in RewardBodies :
        Accept(c, [NoRequest EXCEPT !.op = "putReward", !.pc = "selectExisting",
                                    !.rewardId = r, !.rewardBody = b])

\* SELECT * FROM rewards WHERE id = ? AND parent_id = ?; the body has at
\* least one of the keys.
PutRewardSelectExisting(c) ==
    /\ At(c, "putReward", "selectExisting")
    /\ requests' =
          IF OwnReward(requests[c].rewardId)
          THEN [requests EXCEPT ![c].pc = "update"]
          ELSE Respond(c, [status |-> 404, error |-> "Reward not found"])
    /\ UNCHANGED <<kids, tasks, rewards, redemptions, accepted, sqlite_sequence, magicLinks, parents, config, engine>>

\* UPDATE rewards SET <the keys of the body> WHERE id = ?
PutRewardUpdate(c) ==
    /\ At(c, "putReward", "update")
    /\ LET r == requests[c].rewardId
           b == requests[c].rewardBody
       IN  rewards' =
             IF r \in DOMAIN rewards
             THEN [rewards EXCEPT
                      ![r].points_cost = IF b.hasCost THEN b.points_cost ELSE @,
                      ![r].is_active = IF b.hasActive THEN b.is_active ELSE @]
             ELSE rewards
    /\ requests' = [requests EXCEPT ![c].pc = "selectUpdated"]
    /\ UNCHANGED <<kids, tasks, redemptions, accepted, sqlite_sequence, magicLinks, parents, config, engine>>

\* SELECT * FROM rewards WHERE id = ?, then the response; a row that is
\* gone leaves the key reward out of the JSON.
PutRewardSelectUpdated(c) ==
    /\ At(c, "putReward", "selectUpdated")
    /\ LET r == requests[c].rewardId
       IN  requests' =
             IF r \in DOMAIN rewards
             THEN Respond(c, [status |-> 200,
                              message |-> "Reward updated successfully",
                              reward |-> rewards[r]])
             ELSE Respond(c, [status |-> 200,
                              message |-> "Reward updated successfully"])
    /\ UNCHANGED <<kids, tasks, rewards, redemptions, accepted, sqlite_sequence, magicLinks, parents, config, engine>>

(***************************************************************************)
(* DELETE /rewards/:rewardId (parent)                                      *)
(***************************************************************************)
StartDeleteReward(c) ==
    /\ Free(c)
    /\ \E r \in RewardIdsAsked :
        Accept(c, [NoRequest EXCEPT !.op = "deleteReward", !.pc = "selectReward",
                                    !.rewardId = r])

\* SELECT * FROM rewards WHERE id = ? AND parent_id = ?
DeleteRewardSelect(c) ==
    /\ At(c, "deleteReward", "selectReward")
    /\ requests' =
          IF OwnReward(requests[c].rewardId)
          THEN [requests EXCEPT ![c].pc = "deleteRedemptions"]
          ELSE Respond(c, [status |-> 404, error |-> "Reward not found"])
    /\ UNCHANGED <<kids, tasks, rewards, redemptions, accepted, sqlite_sequence, magicLinks, parents, config, engine>>

\* DELETE FROM reward_redemptions WHERE reward_id = ?
DeleteRewardRedemptions(c) ==
    /\ At(c, "deleteReward", "deleteRedemptions")
    /\ LET Kept(row) == row.reward_id # requests[c].rewardId
       IN  redemptions' = SelectSeq(redemptions, Kept)
    /\ requests' = [requests EXCEPT ![c].pc = "delete"]
    /\ UNCHANGED <<kids, tasks, rewards, accepted, sqlite_sequence, magicLinks, parents, config, engine>>

\* DELETE FROM rewards WHERE id = ?, then the response.
DeleteRewardDelete(c) ==
    /\ At(c, "deleteReward", "delete")
    /\ rewards' = DeleteRows(rewards, {requests[c].rewardId})
    /\ requests' = Respond(c, [status |-> 200,
                               message |-> "Reward deleted successfully"])
    /\ UNCHANGED <<kids, tasks, redemptions, accepted, sqlite_sequence, magicLinks, parents, config, engine>>

(***************************************************************************)
(* PUT /kids/:kidId (parent)                                               *)
(***************************************************************************)
StartPutKid(c) ==
    /\ Free(c)
    /\ \E k \in 1..sqlite_sequence.kids, b \in EditBodies :
        Accept(c, [NoRequest EXCEPT !.op = "putKid", !.pc = "selectExisting",
                                    !.kidId = k, !.body = b])

\* SELECT * FROM kids WHERE id = ? AND parent_id = ?; the body has no pin
\* and at least one of the keys.
PutKidSelectExisting(c) ==
    /\ At(c, "putKid", "selectExisting")
    /\ requests' =
          IF requests[c].kidId \in DOMAIN kids
          THEN [requests EXCEPT ![c].pc = "update"]
          ELSE Respond(c, [status |-> 404, error |-> "Kid not found"])
    /\ UNCHANGED <<kids, tasks, rewards, redemptions, accepted, sqlite_sequence, magicLinks, parents, config, engine>>

\* UPDATE kids SET <the keys of the body> WHERE id = ?
PutKidUpdate(c) ==
    /\ At(c, "putKid", "update")
    /\ LET b == requests[c].body
           k == requests[c].kidId
       IN  kids' = IF k \in DOMAIN kids
                   THEN [kids EXCEPT
                           ![k].points = IF b.hasPoints THEN b.points ELSE @,
                           ![k].level = IF b.hasLevel THEN b.level ELSE @]
                   ELSE kids
    /\ requests' = [requests EXCEPT ![c].pc = "selectUpdated"]
    /\ UNCHANGED <<tasks, rewards, redemptions, accepted, sqlite_sequence, magicLinks, parents, config, engine>>

\* SELECT id, name, avatar, points, level FROM kids WHERE id = ?, then the
\* response; a row that is gone leaves the key kid out of the JSON.
PutKidSelectUpdated(c) ==
    /\ At(c, "putKid", "selectUpdated")
    /\ LET k == requests[c].kidId
       IN  requests' =
             IF k \in DOMAIN kids
             THEN Respond(c, [status |-> 200,
                              message |-> "Kid updated successfully",
                              kid |-> kids[k]])
             ELSE Respond(c, [status |-> 200,
                              message |-> "Kid updated successfully"])
    /\ UNCHANGED <<kids, tasks, rewards, redemptions, accepted, sqlite_sequence, magicLinks, parents, config, engine>>

(***************************************************************************)
(* DELETE /kids/:kidId (parent)                                            *)
(***************************************************************************)
StartDeleteKid(c) ==
    /\ Free(c)
    /\ \E k \in 1..sqlite_sequence.kids :
        Accept(c, [NoRequest EXCEPT !.op = "deleteKid", !.pc = "selectKid",
                                    !.kidId = k])

\* SELECT * FROM kids WHERE id = ? AND parent_id = ?
DeleteKidSelect(c) ==
    /\ At(c, "deleteKid", "selectKid")
    /\ requests' =
          IF requests[c].kidId \in DOMAIN kids
          THEN [requests EXCEPT ![c].pc = "deleteTasks"]
          ELSE Respond(c, [status |-> 404, error |-> "Kid not found"])
    /\ UNCHANGED <<kids, tasks, rewards, redemptions, accepted, sqlite_sequence, magicLinks, parents, config, engine>>

\* DELETE FROM tasks WHERE kid_id = ?
DeleteKidTasks(c) ==
    /\ At(c, "deleteKid", "deleteTasks")
    /\ tasks' = DeleteRows(tasks, {t \in DOMAIN tasks :
                                      tasks[t].kid_id = requests[c].kidId})
    /\ requests' = [requests EXCEPT ![c].pc = "deleteRedemptions"]
    /\ UNCHANGED <<kids, rewards, redemptions, accepted, sqlite_sequence, magicLinks, parents, config, engine>>

\* DELETE FROM reward_redemptions WHERE kid_id = ?
DeleteKidRedemptions(c) ==
    /\ At(c, "deleteKid", "deleteRedemptions")
    /\ LET Kept(row) == row.kid_id # requests[c].kidId
       IN  redemptions' = SelectSeq(redemptions, Kept)
    /\ requests' = [requests EXCEPT ![c].pc = "delete"]
    /\ UNCHANGED <<kids, tasks, rewards, accepted, sqlite_sequence, magicLinks, parents, config, engine>>

\* DELETE FROM kids WHERE id = ?, then the response.
DeleteKidDelete(c) ==
    /\ At(c, "deleteKid", "delete")
    /\ kids' = DeleteRows(kids, {requests[c].kidId})
    /\ requests' = Respond(c, [status |-> 200,
                               message |-> "Kid deleted successfully"])
    /\ UNCHANGED <<tasks, rewards, redemptions, accepted, sqlite_sequence, magicLinks, parents, config, engine>>

(***************************************************************************)
(* POST /kids/:kidId/reset-points (parent)                                 *)
(***************************************************************************)
StartResetPoints(c) ==
    /\ Free(c)
    /\ \E k \in 1..sqlite_sequence.kids :
        Accept(c, [NoRequest EXCEPT !.op = "resetPoints", !.pc = "selectKid",
                                    !.kidId = k])

\* SELECT * FROM kids WHERE id = ? AND parent_id = ?
ResetPointsSelectKid(c) ==
    /\ At(c, "resetPoints", "selectKid")
    /\ requests' =
          IF requests[c].kidId \in DOMAIN kids
          THEN [requests EXCEPT ![c].pc = "update"]
          ELSE Respond(c, [status |-> 404, error |-> "Kid not found"])
    /\ UNCHANGED <<kids, tasks, rewards, redemptions, accepted, sqlite_sequence, magicLinks, parents, config, engine>>

\* UPDATE kids SET points = 0, level = 1 WHERE id = ?, then the response.
ResetPointsUpdate(c) ==
    /\ At(c, "resetPoints", "update")
    /\ LET k == requests[c].kidId
       IN  kids' = IF k \in DOMAIN kids
                   THEN [kids EXCEPT ![k] = [points |-> 0, level |-> 1]]
                   ELSE kids
    /\ requests' = Respond(c, [status |-> 200,
                               message |-> "Points reset successfully"])
    /\ UNCHANGED <<tasks, rewards, redemptions, accepted, sqlite_sequence, magicLinks, parents, config, engine>>

(***************************************************************************)
(* GET /kid/dashboard.  The lists of the response are kept as the sets of  *)
(* the ids of their rows; a request completes one task, so at most        *)
(* MaxRequests tasks are completed, fewer than the LIMIT 5 of the query.   *)
(***************************************************************************)
StartDashboard(c) ==
    /\ Free(c)
    /\ \E k \in 1..sqlite_sequence.kids :
        Accept(c, [NoRequest EXCEPT !.op = "dashboard", !.pc = "selectKid",
                                    !.kidId = k])

\* SELECT * FROM kids WHERE id = ?
DashboardSelectKid(c) ==
    /\ At(c, "dashboard", "selectKid")
    /\ LET k == requests[c].kidId
       IN  requests' =
             IF k \in DOMAIN kids
             THEN [requests EXCEPT ![c].kid = kids[k],
                                   ![c].found = TRUE,
                                   ![c].pc = "selectPending"]
             ELSE [requests EXCEPT ![c].pc = "selectPending"]
    /\ UNCHANGED <<kids, tasks, rewards, redemptions, accepted, sqlite_sequence, magicLinks, parents, config, engine>>

\* The rows of tasks WHERE kid_id = ? AND status = ?
TasksOf(k, status) ==
    {t \in DOMAIN tasks : tasks[t].kid_id = k /\ tasks[t].status = status}

\* SELECT * FROM tasks WHERE kid_id = ? AND status = "pending"
DashboardSelectPending(c) ==
    /\ At(c, "dashboard", "selectPending")
    /\ requests' = [requests EXCEPT
                       ![c].pendingTasks = TasksOf(requests[c].kidId, "pending"),
                       ![c].pc = "selectCompleted"]
    /\ UNCHANGED <<kids, tasks, rewards, redemptions, accepted, sqlite_sequence, magicLinks, parents, config, engine>>

\* SELECT * FROM tasks WHERE kid_id = ? AND status = "completed" ... LIMIT 5
DashboardSelectCompleted(c) ==
    /\ At(c, "dashboard", "selectCompleted")
    /\ requests' = [requests EXCEPT
                       ![c].completedTasks = TasksOf(requests[c].kidId, "completed"),
                       ![c].pc = "selectStats"]
    /\ UNCHANGED <<kids, tasks, rewards, redemptions, accepted, sqlite_sequence, magicLinks, parents, config, engine>>

\* SUM(points) over the task rows S.
RECURSIVE SumPoints(_)
SumPoints(S) ==
    IF S = {} THEN 0
    ELSE LET t == CHOOSE x \in S : TRUE
         IN  tasks[t].points + SumPoints(S \ {t})

\* SELECT COUNT(*), SUM(CASE ...) ... FROM tasks WHERE kid_id = ?: over no
\* rows COUNT(*) is 0 and the sums are NULL.
TaskStats(k) ==
    LET completed == TasksOf(k, "completed")
        pending == TasksOf(k, "pending")
        rows == {t \in DOMAIN tasks : tasks[t].kid_id = k}
    IN  IF rows = {}
        THEN NoStats
        ELSE [total_tasks |-> Cardinality(rows),
              completed_tasks |-> Cardinality(completed),
              pending_tasks |-> Cardinality(pending),
              total_points_earned |-> SumPoints(completed)]

\* The statistics query, then getLevelProgress(kid.points) on the row read
\* at the start.  Without that row, kid.points throws and the catch block
\* answers.
DashboardSelectStats(c) ==
    /\ At(c, "dashboard", "selectStats")
    /\ requests' =
          IF requests[c].found
          THEN [requests EXCEPT ![c].stats = TaskStats(requests[c].kidId),
                                ![c].pc = "selectRewards"]
          ELSE Respond(c, [status |-> 500,
                           error |-> "Failed to get dashboard data"])
    /\ UNCHANGED <<kids, tasks, rewards, redemptions, accepted, sqlite_sequence, magicLinks, parents, config, engine>>

\* SELECT * FROM rewards WHERE parent_id = ? AND is_active = 1, then the
\* response from the results of the five queries.
DashboardRespond(c) ==
    /\ At(c, "dashboard", "selectRewards")
    /\ requests' = Respond(c, [status |-> 200,
                               kid |-> requests[c].kid,
                               pendingTasks |-> requests[c].pendingTasks,
                               completedTasks |-> requests[c].completedTasks,
                               stats |-> requests[c].stats,
                               levelProgress |->
                                   getLevelProgress(requests[c].kid.points),
                               rewards |-> {r \in DOMAIN rewards :
                                               /\ OwnReward(r)
                                               /\ rewards[r].is_active = 1}])
    /\ UNCHANGED <<kids, tasks, rewards, redemptions, accepted, sqlite_sequence, magicLinks, parents, config, engine>>

(***************************************************************************)
(* POST /tasks (parent)                                                    *)
(***************************************************************************)
StartPostTask(c) ==
    /\ Free(c)
    /\ \E b \in NewTaskBodies :
        Accept(c, [NoRequest EXCEPT
                      !.op = "postTask",
                      !.pc = IF b.kid_id # Null THEN "selectKid" ELSE "insert",
                      !.taskBody = b])

\* if (kid_id): SELECT id FROM kids WHERE id = ? AND parent_id = ?
PostTaskSelectKid(c) ==
    /\ At(c, "postTask", "selectKid")
    /\ requests' =
          IF requests[c].taskBody.kid_id \in DOMAIN kids
          THEN [requests EXCEPT ![c].pc = "insert"]
          ELSE Respond(c, [status |-> 400, error |-> "Invalid kid ID"])
    /\ UNCHANGED <<kids, tasks, rewards, redemptions, accepted, sqlite_sequence, magicLinks, parents, config, engine>>

\* INSERT INTO tasks (..., kid_id, ..., points, ..., status) VALUES (...,
\* 'pending'); result.id is the id of the new row.
PostTaskInsert(c) ==
    /\ At(c, "postTask", "insert")
    /\ LET id == sqlite_sequence.tasks + 1
           b == requests[c].taskBody
       IN  /\ tasks' = InsertRow(tasks, id, [status |-> "pending",
                                             points |-> b.points,
                                             kid_id |-> b.kid_id])
           /\ sqlite_sequence' = [sqlite_sequence EXCEPT !.tasks = id]
           /\ requests' = [requests EXCEPT ![c].taskId = id,
                                           ![c].pc = "selectCreated"]
    /\ UNCHANGED <<kids, rewards, redemptions, accepted, magicLinks, parents, config, engine>>

\* SELECT * FROM tasks WHERE id = ?, then the response; a row that is gone
\* leaves the key task out of the JSON.
PostTaskSelectCreated(c) ==
    /\ At(c, "postTask", "selectCreated")
    /\ LET t == requests[c].taskId
       IN  requests' =
             IF t \in DOMAIN tasks
             THEN Respond(c, [status |-> 201,
                              message |-> "Task created successfully",
                              task |-> tasks[t]])
             ELSE Respond(c, [status |-> 201,
                              message |-> "Task created successfully"])
    /\ UNCHANGED <<kids, tasks, rewards, redemptions, accepted, sqlite_sequence, magicLinks, parents, config, engine>>

(***************************************************************************)
(* POST /rewards (parent)                                                  *)
(***************************************************************************)
StartPostReward(c) ==
    /\ Free(c)
    /\ \E cost \in NewRewardCosts :
        Accept(c, [NoRequest EXCEPT
                      !.op = "postReward",
                      !.pc = "insert",
                      !.rewardBody = [NoRewardBody EXCEPT !.hasCost = TRUE,
                                                          !.points_cost = cost]])

\* INSERT INTO rewards (parent_id, title, description, points_cost);
\* is_active takes its default, 1.
PostRewardInsert(c) ==
    /\ At(c, "postReward", "insert")
    /\ LET id == sqlite_sequence.rewards + 1
       IN  /\ rewards' = InsertRow(rewards, id,
                                   [points_cost |-> requests[c].rewardBody.points_cost,
                                    is_active |-> 1,
                                    parent_id |-> FamilyParent])
           /\ sqlite_sequence' = [sqlite_sequence EXCEPT !.rewards = id]
           /\ requests' = [requests EXCEPT ![c].rewardId = id,
                                           ![c].pc = "selectCreated"]
    /\ UNCHANGED <<kids, tasks, redemptions, accepted, magicLinks, parents, config, engine>>

\* SELECT * FROM rewards WHERE id = ?, then the response.
PostRewardSelectCreated(c) ==
    /\ At(c, "postReward", "selectCreated")
    /\ LET r == requests[c].rewardId
       IN  requests' =
             IF r \in DOMAIN rewards
             THEN Respond(c, [status |-> 201,
                              message |-> "Reward created successfully",
                              reward |-> rewards[r]])
             ELSE Respond(c, [status |-> 201,
                              message |-> "Reward created successfully"])
    /\ UNCHANGED <<kids, tasks, rewards, redemptions, accepted, sqlite_sequence, magicLinks, parents, config, engine>>

(***************************************************************************)
(* POST /parent/kids (parent)                                              *)
(***************************************************************************)
StartPostKid(c) ==
    /\ Free(c)
    /\ Accept(c, [NoRequest EXCEPT !.op = "postKid", !.pc = "selectPin"])

\* SELECT id FROM kids WHERE parent_id = ? AND pin = ?: the column holds
\* the bcrypt hash of a PIN and the parameter is the four digits of the
\* body, so no row matches; then bcrypt.hash, which touches no table.
PostKidSelectPin(c) ==
    /\ At(c, "postKid", "selectPin")
    /\ requests' = [requests EXCEPT ![c].pc = "insert"]
    /\ UNCHANGED <<kids, tasks, rewards, redemptions, accepted, sqlite_sequence, magicLinks, parents, config, engine>>

\* INSERT INTO kids (parent_id, name, pin, avatar); points and level take
\* their defaults, 0 and 1.
PostKidInsert(c) ==
    /\ At(c, "postKid", "insert")
    /\ LET id == sqlite_sequence.kids + 1
       IN  /\ kids' = InsertRow(kids, id, [points |-> 0, level |-> 1])
           /\ sqlite_sequence' = [sqlite_sequence EXCEPT !.kids = id]
           /\ requests' = [requests EXCEPT ![c].kidId = id,
                                           ![c].pc = "selectCreated"]
    /\ UNCHANGED <<tasks, rewards, redemptions, accepted, magicLinks, parents, config, engine>>

\* SELECT id, name, avatar, points, level FROM kids WHERE id = ?, then the
\* response.
PostKidSelectCreated(c) ==
    /\ At(c, "postKid", "selectCreated")
    /\ LET k == requests[c].kidId
       IN  requests' =
             IF k \in DOMAIN kids
             THEN Respond(c, [status |-> 201,
                              message |-> "Kid added successfully",
                              kid |-> kids[k]])
             ELSE Respond(c, [status |-> 201,
                              message |-> "Kid added successfully"])
    /\ UNCHANGED <<kids, tasks, rewards, redemptions, accepted, sqlite_sequence, magicLinks, parents, config, engine>>

(***************************************************************************)
(* POST /auth/register: a new parent, and the default rewards seeded for   *)
(* it, one awaited INSERT per reward.                                      *)
(***************************************************************************)
StartRegister(c) ==
    /\ Free(c)
    /\ accepted + Fare("register") <= MaxRequests
    /\ \E e \in Emails :
        Accept(c, [NoRequest EXCEPT !.op = "register",
                                    !.pc = "selectExisting",
                                    !.email = e])

\* SELECT id FROM parents WHERE email = ?; then bcrypt.hash, which touches
\* no table.
RegisterSelectExisting(c) ==
    /\ At(c, "register", "selectExisting")
    /\ requests' =
          IF \E p \in DOMAIN parents : parents[p].email = requests[c].email
          THEN Respond(c, [status |-> 400, error |-> "Email already registered"])
          ELSE [requests EXCEPT ![c].pc = "insertParent"]
    /\ UNCHANGED <<kids, tasks, rewards, redemptions, accepted, sqlite_sequence, magicLinks, parents, config, engine>>

\* INSERT INTO parents (email, password_hash, name); the column email is
\* UNIQUE, so the statement fails when a row with the address has appeared
\* meanwhile, and the catch answers 500.  Then jwt.sign.
RegisterInsertParent(c) ==
    /\ At(c, "register", "insertParent")
    /\ IF \E p \in DOMAIN parents : parents[p].email = requests[c].email
       THEN /\ requests' = Respond(c, [status |-> 500,
                                       error |-> "Registration failed"])
            /\ UNCHANGED <<parents, sqlite_sequence>>
       ELSE LET id == sqlite_sequence.parents + 1
            IN  /\ parents' = InsertRow(parents, id, [email |-> requests[c].email])
                /\ sqlite_sequence' = [sqlite_sequence EXCEPT !.parents = id]
                /\ requests' = [requests EXCEPT ![c].parentId = id,
                                                ![c].pc = "countRewards"]
    /\ UNCHANGED <<kids, tasks, rewards, redemptions, accepted, magicLinks, config, engine>>

\* The response of a registration that got its parent row.
RegisterResponse(r) ==
    [status |-> 201,
     message |-> "Parent account created successfully",
     token |-> "jwt",
     user |-> [id |-> r.parentId, email |-> r.email]]

\* seedRewardsIfEmpty, parentHasRewards:
\* SELECT COUNT(*) as count FROM rewards WHERE parent_id = ?
RegisterCountRewards(c) ==
    /\ At(c, "register", "countRewards")
    /\ LET count == Cardinality({r \in DOMAIN rewards :
                                    rewards[r].parent_id = requests[c].parentId})
       IN  requests' =
             IF count > 0
             THEN Respond(c, RegisterResponse(requests[c]))
             ELSE [requests EXCEPT ![c].pc = "seed", ![c].seeded = 0]
    /\ UNCHANGED <<kids, tasks, rewards, redemptions, accepted, sqlite_sequence, magicLinks, parents, config, engine>>

\* seedDefaultRewards, one turn of its for loop:
\* INSERT INTO rewards (parent_id, title, description, points_cost,
\* is_active) VALUES (?, ?, ?, ?, 1); after the last one the response.
RegisterSeed(c) ==
    /\ At(c, "register", "seed")
    /\ LET i == requests[c].seeded + 1
           id == sqlite_sequence.rewards + 1
       IN  /\ rewards' = InsertRow(rewards, id,
                                   [points_cost |-> defaultRewards[i],
                                    is_active |-> 1,
                                    parent_id |-> requests[c].parentId])
           /\ sqlite_sequence' = [sqlite_sequence EXCEPT !.rewards = id]
           /\ requests' =
                 IF i = Len(defaultRewards)
                 THEN Respond(c, RegisterResponse([requests[c] EXCEPT !.seeded = i]))
                 ELSE [requests EXCEPT ![c].seeded = i]
    /\ UNCHANGED <<kids, tasks, redemptions, accepted, magicLinks, parents, config, engine>>

(***************************************************************************)
(* scripts/seedExistingParents.js, seedAllExistingParents: a process of    *)
(* its own on the same database, which seeds the default rewards for every *)
(* parent that has none.  It has no response; at its exit its slot is      *)
(* free again.                                                             *)
(***************************************************************************)
StartSeedExisting(c) ==
    /\ Free(c)
    /\ accepted + Fare("seedExisting") <= MaxRequests
    /\ Accept(c, [NoRequest EXCEPT !.op = "seedExisting", !.pc = "selectParents"])

\* The script goes on to the next parent of its list, or exits after the
\* last.
NextParent(r) ==
    IF Len(r.todo) > 1
    THEN [r EXCEPT !.pc = "countRewards", !.todo = Tail(r.todo)]
    ELSE [r EXCEPT !.pc = "responded", !.todo = <<>>, !.res = [status |-> 0]]

\* SELECT id, name FROM parents: the rows in the order of their ids.
SeedExistingSelectParents(c) ==
    /\ At(c, "seedExisting", "selectParents")
    /\ requests' =
          IF DOMAIN parents = {}
          THEN [requests EXCEPT ![c].pc = "responded", ![c].res = [status |-> 0]]
          ELSE [requests EXCEPT ![c].pc = "countRewards",
                                ![c].todo = IdsInOrder(DOMAIN parents)]
    /\ UNCHANGED <<kids, tasks, rewards, redemptions, accepted, sqlite_sequence, magicLinks, parents, config, engine>>

\* seedRewardsIfEmpty(parent.id), parentHasRewards:
\* SELECT COUNT(*) as count FROM rewards WHERE parent_id = ?
SeedExistingCountRewards(c) ==
    /\ At(c, "seedExisting", "countRewards")
    /\ LET p == Head(requests[c].todo)
           count == Cardinality({r \in DOMAIN rewards : rewards[r].parent_id = p})
       IN  requests' =
             IF count > 0
             THEN [requests EXCEPT ![c] = NextParent(requests[c])]
             ELSE [requests EXCEPT ![c].pc = "seed", ![c].parentId = p,
                                   ![c].seeded = 0]
    /\ UNCHANGED <<kids, tasks, rewards, redemptions, accepted, sqlite_sequence, magicLinks, parents, config, engine>>

\* seedDefaultRewards, one turn of its for loop; after the last one the
\* script goes on.
SeedExistingSeed(c) ==
    /\ At(c, "seedExisting", "seed")
    /\ LET i == requests[c].seeded + 1
           id == sqlite_sequence.rewards + 1
       IN  /\ rewards' = InsertRow(rewards, id,
                                   [points_cost |-> defaultRewards[i],
                                    is_active |-> 1,
                                    parent_id |-> requests[c].parentId])
           /\ sqlite_sequence' = [sqlite_sequence EXCEPT !.rewards = id]
           /\ requests' =
                 IF i = Len(defaultRewards)
                 THEN [requests EXCEPT
                          ![c] = NextParent([requests[c] EXCEPT !.seeded = i])]
                 ELSE [requests EXCEPT ![c].seeded = i]
    /\ UNCHANGED <<kids, tasks, redemptions, accepted, magicLinks, parents, config, engine>>

(***************************************************************************)
(* A call of seedDefaultRewards(parentId), which utils/seedRewards.js      *)
(* exports, for a parent of the table: the rewards are inserted whatever   *)
(* rewards the parent has.                                                 *)
(***************************************************************************)
StartSeedDefault(c) ==
    /\ Free(c)
    /\ accepted + Fare("seedDefault") <= MaxRequests
    /\ \E p \in DOMAIN parents :
        Accept(c, [NoRequest EXCEPT !.op = "seedDefault", !.pc = "seed",
                                    !.parentId = p])

SeedDefaultSeed(c) ==
    /\ At(c, "seedDefault", "seed")
    /\ LET i == requests[c].seeded + 1
           id == sqlite_sequence.rewards + 1
       IN  /\ rewards' = InsertRow(rewards, id,
                                   [points_cost |-> defaultRewards[i],
                                    is_active |-> 1,
                                    parent_id |-> requests[c].parentId])
           /\ sqlite_sequence' = [sqlite_sequence EXCEPT !.rewards = id]
           /\ requests' =
                 IF i = Len(defaultRewards)
                 THEN [requests EXCEPT ![c].seeded = i,
                                       ![c].pc = "responded",
                                       ![c].res = [status |-> 0]]
                 ELSE [requests EXCEPT ![c].seeded = i]
    /\ UNCHANGED <<kids, tasks, redemptions, accepted, magicLinks, parents, config, engine>>

InitServer ==
    /\ config = ReferenceConfig
    /\ fn = "none"
    /\ args = <<>>
    /\ ret = 0
    /\ pc = "idle"
    /\ loopLevel = 0
    /\ loopPointsUsed = 0
    /\ tests = 0
    /\ calls = [p \in Callers |-> NoCall]
    /\ ServerAtRest

\* A step of a request already accepted.
Continue(c) ==
    \/ CompleteSelectTask(c)
    \/ CompleteUpdateTask(c)
    \/ CompleteAddPoints(c)
    \/ CompleteSelectKid(c)
    \/ CompleteUpdateLevel(c)
    \/ PutTaskSelectExisting(c)
    \/ PutTaskUpdate(c)
    \/ DeleteTaskSelect(c)
    \/ DeleteTaskDelete(c)
    \/ RedeemSelectReward(c)
    \/ RedeemSelectKid(c)
    \/ RedeemDeduct(c)
    \/ RedeemInsert(c)
    \/ RedeemSelectUpdated(c)
    \/ PutRewardSelectExisting(c)
    \/ PutRewardUpdate(c)
    \/ PutRewardSelectUpdated(c)
    \/ DeleteRewardSelect(c)
    \/ DeleteRewardRedemptions(c)
    \/ DeleteRewardDelete(c)
    \/ PutKidSelectExisting(c)
    \/ PutKidUpdate(c)
    \/ PutKidSelectUpdated(c)
    \/ DeleteKidSelect(c)
    \/ DeleteKidTasks(c)
    \/ DeleteKidRedemptions(c)
    \/ DeleteKidDelete(c)
    \/ ResetPointsSelectKid(c)
    \/ ResetPointsUpdate(c)
    \/ DashboardSelectKid(c)
    \/ DashboardSelectPending(c)
    \/ DashboardSelectCompleted(c)
    \/ DashboardSelectStats(c)
    \/ DashboardRespond(c)
    \/ PostTaskSelectKid(c)
    \/ PostTaskInsert(c)
    \/ PostTaskSelectCreated(c)
    \/ PostRewardInsert(c)
    \/ PostRewardSelectCreated(c)
    \/ PostKidSelectPin(c)
    \/ PostKidInsert(c)
    \/ PostKidSelectCreated(c)
    \/ RegisterSelectExisting(c)
    \/ RegisterInsertParent(c)
    \/ RegisterCountRewards(c)
    \/ RegisterSeed(c)
    \/ SeedExistingSelectParents(c)
    \/ SeedExistingCountRewards(c)
    \/ SeedExistingSeed(c)
    \/ SeedDefaultSeed(c)

NextServer ==
    \E c \in Connections :
        \/ StartComplete(c)
        \/ CompleteSelectTask(c)
        \/ CompleteUpdateTask(c)
        \/ CompleteAddPoints(c)
        \/ CompleteSelectKid(c)
        \/ CompleteUpdateLevel(c)
        \/ StartPutTask(c)
        \/ PutTaskSelectExisting(c)
        \/ PutTaskUpdate(c)
        \/ StartDeleteTask(c)
        \/ DeleteTaskSelect(c)
        \/ DeleteTaskDelete(c)
        \/ StartRedeem(c)
        \/ RedeemSelectReward(c)
        \/ RedeemSelectKid(c)
        \/ RedeemDeduct(c)
        \/ RedeemInsert(c)
        \/ RedeemSelectUpdated(c)
        \/ StartPutReward(c)
        \/ PutRewardSelectExisting(c)
        \/ PutRewardUpdate(c)
        \/ PutRewardSelectUpdated(c)
        \/ StartDeleteReward(c)
        \/ DeleteRewardSelect(c)
        \/ DeleteRewardRedemptions(c)
        \/ DeleteRewardDelete(c)
        \/ StartPutKid(c)
        \/ PutKidSelectExisting(c)
        \/ PutKidUpdate(c)
        \/ PutKidSelectUpdated(c)
        \/ StartDeleteKid(c)
        \/ DeleteKidSelect(c)
        \/ DeleteKidTasks(c)
        \/ DeleteKidRedemptions(c)
        \/ DeleteKidDelete(c)
        \/ StartResetPoints(c)
        \/ ResetPointsSelectKid(c)
        \/ ResetPointsUpdate(c)
        \/ StartDashboard(c)
        \/ DashboardSelectKid(c)
        \/ DashboardSelectPending(c)
        \/ DashboardSelectCompleted(c)
        \/ DashboardSelectStats(c)
        \/ DashboardRespond(c)
        \/ StartPostTask(c)
        \/ PostTaskSelectKid(c)
        \/ PostTaskInsert(c)
        \/ PostTaskSelectCreated(c)
        \/ StartPostReward(c)
        \/ PostRewardInsert(c)
        \/ PostRewardSelectCreated(c)
        \/ StartPostKid(c)
        \/ PostKidSelectPin(c)
        \/ PostKidInsert(c)
        \/ PostKidSelectCreated(c)
        \/ StartRegister(c)
        \/ RegisterSelectExisting(c)
        \/ RegisterInsertParent(c)
        \/ RegisterCountRewards(c)
        \/ RegisterSeed(c)
        \/ StartSeedExisting(c)
        \/ SeedExistingSelectParents(c)
        \/ SeedExistingCountRewards(c)
        \/ SeedExistingSeed(c)
        \/ StartSeedDefault(c)
        \/ SeedDefaultSeed(c)

\* The database answers every statement: a request that was accepted is
\* carried through to its response.
SpecServer ==
    InitServer /\ [][NextServer]_vars
        /\ \A c \in Connections : WF_vars(Continue(c))

(***************************************************************************)
(* POST /auth/magic-link                                                   *)
(***************************************************************************)
\* The requests of POST /auth/magic-link that have not inserted their link.
LinksToCome ==
    {c \in Connections : /\ requests[c].op = "magicLink"
                         /\ requests[c].pc \in {"selectParent", "insert"}}

StartMagicLink(c) ==
    /\ Free(c)
    /\ Len(magicLinks) + Cardinality(LinksToCome) < Cardinality(Tokens)
    /\ \E e \in Emails :
        Accept(c, [NoRequest EXCEPT !.op = "magicLink",
                                    !.pc = "selectParent",
                                    !.email = e])

\* SELECT * FROM parents WHERE email = ?
MagicLinkSelectParent(c) ==
    /\ At(c, "magicLink", "selectParent")
    /\ requests' =
          IF \E p \in DOMAIN parents : parents[p].email = requests[c].email
          THEN [requests EXCEPT ![c].pc = "insert"]
          ELSE Respond(c, [status |-> 404, error |-> "Email not found"])
    /\ UNCHANGED <<kids, tasks, rewards, redemptions, accepted, sqlite_sequence, magicLinks, parents, config, engine>>

\* crypto.randomBytes(32): a token that no link has; expires_at is 15
\* minutes ahead.  INSERT INTO magic_links (email, token, expires_at); used
\* takes its default, 0.
MagicLinkInsert(c) ==
    /\ At(c, "magicLink", "insert")
    /\ \E t \in Tokens \ {magicLinks[i].token : i \in DOMAIN magicLinks} :
        /\ magicLinks' = Append(magicLinks, [email |-> requests[c].email,
                                             token |-> t,
                                             used |-> 0,
                                             expired |-> FALSE])
        /\ requests' = [requests EXCEPT ![c].token = t, ![c].pc = "sendMail"]
    /\ UNCHANGED <<kids, tasks, rewards, redemptions, accepted, sqlite_sequence, parents, config, engine>>

\* transporter.sendMail: the mail is taken by the SMTP server, or the call
\* fails and the catch answers 500; the link stays in the table.
MagicLinkSendMail(c) ==
    /\ At(c, "magicLink", "sendMail")
    /\ \E sent \in BOOLEAN :
        requests' =
          IF sent
          THEN Respond(c, [status |-> 200,
                           message |-> "Magic link sent to your email"])
          ELSE Respond(c, [status |-> 500,
                           error |-> "Failed to send magic link"])
    /\ UNCHANGED <<kids, tasks, rewards, redemptions, accepted, sqlite_sequence, magicLinks, parents, config, engine>>

(***************************************************************************)
(* POST /auth/verify-magic-link.  last_login of the parent row is a        *)
(* timestamp and is not kept.                                              *)
(***************************************************************************)
StartVerify(c) ==
    /\ Free(c)
    /\ \E t \in Tokens :
        Accept(c, [NoRequest EXCEPT !.op = "verify", !.pc = "selectLink",
                                    !.token = t])

\* SELECT * FROM magic_links WHERE token = ? AND used = 0
\*   AND expires_at > CURRENT_TIMESTAMP
VerifySelectLink(c) ==
    /\ At(c, "verify", "selectLink")
    /\ LET found == {i \in DOMAIN magicLinks :
                        /\ magicLinks[i].token = requests[c].token
                        /\ magicLinks[i].used = 0
                        /\ ~magicLinks[i].expired}
       IN  requests' =
             IF found # {}
             THEN LET i == CHOOSE i \in found : TRUE
                  IN  [requests EXCEPT ![c].pc = "markUsed",
                                       ![c].linkId = i,
                                       ![c].email = magicLinks[i].email]
             ELSE Respond(c, [status |-> 400,
                              error |-> "Invalid or expired token"])
    /\ UNCHANGED <<kids, tasks, rewards, redemptions, accepted, sqlite_sequence, magicLinks, parents, config, engine>>

\* UPDATE magic_links SET used = 1 WHERE id = ?
VerifyMarkUsed(c) ==
    /\ At(c, "verify", "markUsed")
    /\ magicLinks' = [magicLinks EXCEPT ![requests[c].linkId].used = 1]
    /\ requests' = [requests EXCEPT ![c].pc = "selectParent"]
    /\ UNCHANGED <<kids, tasks, rewards, redemptions, accepted, sqlite_sequence, parents, config, engine>>

\* SELECT * FROM parents WHERE email = ?; without a row the next statement
\* reads parent.id of undefined and the catch answers 500.
VerifySelectParent(c) ==
    /\ At(c, "verify", "selectParent")
    /\ LET found == {p \in DOMAIN parents : parents[p].email = requests[c].email}
       IN  requests' =
             IF found # {}
             THEN [requests EXCEPT ![c].pc = "updateLastLogin",
                                   ![c].parentId = CHOOSE p \in found : TRUE]
             ELSE Respond(c, [status |-> 500, error |-> "Verification failed"])
    /\ UNCHANGED <<kids, tasks, rewards, redemptions, accepted, sqlite_sequence, magicLinks, parents, config, engine>>

\* UPDATE parents SET last_login = CURRENT_TIMESTAMP, then jwt.sign and the
\* response with the JWT.
VerifyUpdateLastLogin(c) ==
    /\ At(c, "verify", "updateLastLogin")
    /\ requests' = Respond(c, [status |-> 200,
                               message |-> "Magic link verified successfully",
                               token |-> "jwt",
                               user |-> [id |-> requests[c].parentId,
                                         email |-> requests[c].email]])
    /\ UNCHANGED <<kids, tasks, rewards, redemptions, accepted, sqlite_sequence, magicLinks, parents, config, engine>>

\* Time passes expires_at of a link.
Expire ==
    /\ \E i \in DOMAIN magicLinks :
        /\ ~magicLinks[i].expired
        /\ magicLinks' = [magicLinks EXCEPT ![i].expired = TRUE]
    /\ UNCHANGED <<kids, tasks, rewards, redemptions, requests, accepted, sqlite_sequence, parents, config, engine>>

ContinueAuth(c) ==
    \/ MagicLinkSelectParent(c)
    \/ MagicLinkInsert(c)
    \/ MagicLinkSendMail(c)
    \/ VerifySelectLink(c)
    \/ VerifyMarkUsed(c)
    \/ VerifySelectParent(c)
    \/ VerifyUpdateLastLogin(c)
    \/ RegisterSelectExisting(c)
    \/ RegisterInsertParent(c)
    \/ RegisterCountRewards(c)
    \/ RegisterSeed(c)

NextAuth ==
    \/ \E c \in Connections :
        \/ StartRegister(c)
        \/ RegisterSelectExisting(c)
        \/ RegisterInsertParent(c)
        \/ RegisterCountRewards(c)
        \/ RegisterSeed(c)
        \/ StartMagicLink(c)
        \/ MagicLinkSelectParent(c)
        \/ MagicLinkInsert(c)
        \/ MagicLinkSendMail(c)
        \/ StartVerify(c)
        \/ VerifySelectLink(c)
        \/ VerifyMarkUsed(c)
        \/ VerifySelectParent(c)
        \/ VerifyUpdateLastLogin(c)
    \/ Expire

SpecAuth ==
    InitServer /\ [][NextAuth]_vars
        /\ \A c \in Connections : WF_vars(ContinueAuth(c))

(***************************************************************************)
(* Several callers inside the engine at once.  Each caller has a frame of  *)
(* its own in calls, holding the locals the functions declare with let and *)
(* const; a step is one statement of one caller, and the steps of the      *)
(* callers interleave in any order.  The module has nothing at module      *)
(* level but the two constants and the functions.                          *)
(***************************************************************************)
CallLevels == {0, 1, 3}

CallTotals == {0 - 1, 0, 60, 130}

\* The first statements of calculateLevelFromPoints on the total t, in the
\* frame f: the early return of 1, or level = 1 and pointsUsed = 0.
BeginLevel(f, t) ==
    IF t < 0
    THEN [f EXCEPT !.level = 1, !.pc = "levelled"]
    ELSE [f EXCEPT !.level = 1, !.pointsUsed = 0, !.pc = "loop"]

\* getPointsRequiredForLevelUp is one return statement.
BeginGetPointsRequiredForLevelUp(p) ==
    /\ calls[p].pc = "idle"
    /\ \E l \in CallLevels :
        calls' = [calls EXCEPT ![p] =
                     [@ EXCEPT !.fn = "getPointsRequiredForLevelUp",
                               !.args = <<l>>,
                               !.ret = getPointsRequiredForLevelUp(l),
                               !.pc = "done"]]
    /\ UNCHANGED <<config, fn, args, ret, frame, server>>

\* getPointsRequiredForLevel up to its for loop.
BeginGetPointsRequiredForLevel(p) ==
    /\ calls[p].pc = "idle"
    /\ \E l \in CallLevels :
        calls' = [calls EXCEPT ![p] =
                     IF l <= 1
                     THEN [@ EXCEPT !.fn = "getPointsRequiredForLevel",
                                    !.args = <<l>>,
                                    !.ret = 0,
                                    !.pc = "done"]
                     ELSE [@ EXCEPT !.fn = "getPointsRequiredForLevel",
                                    !.args = <<l>>,
                                    !.totalPoints = 0,
                                    !.i = 1,
                                    !.pc = "sum"]]
    /\ UNCHANGED <<config, fn, args, ret, frame, server>>

\* One test of i < level: an iteration of the for loop, or the return.
CallSumStep(p) ==
    /\ calls[p].pc = "sum"
    /\ calls' = [calls EXCEPT ![p] =
                    IF @.i < @.args[1]
                    THEN [@ EXCEPT !.totalPoints =
                                       @ + getPointsRequiredForLevelUp(calls[p].i),
                                   !.i = @ + 1]
                    ELSE [@ EXCEPT !.ret = calls[p].totalPoints,
                                   !.pc = "done"]]
    /\ UNCHANGED <<config, fn, args, ret, frame, server>>

BeginCalculateLevelFromPoints(p) ==
    /\ calls[p].pc = "idle"
    /\ \E t \in CallTotals :
        calls' = [calls EXCEPT ![p] =
                     BeginLevel([@ EXCEPT !.fn = "calculateLevelFromPoints",
                                          !.args = <<t>>,
                                          !.k = 1], t)]
    /\ UNCHANGED <<config, fn, args, ret, frame, server>>

BeginGetLevelProgress(p) ==
    /\ calls[p].pc = "idle"
    /\ \E t \in CallTotals :
        calls' = [calls EXCEPT ![p] =
                     BeginLevel([@ EXCEPT !.fn = "getLevelProgress",
                                          !.args = <<t>>,
                                          !.k = 1], t)]
    /\ UNCHANGED <<config, fn, args, ret, frame, server>>

\* checkLevelUp starts with calculateLevelFromPoints(oldPoints).
BeginCheckLevelUp(p) ==
    /\ calls[p].pc = "idle"
    /\ \E o \in CallTotals, n \in CallTotals :
        calls' = [calls EXCEPT ![p] =
                     BeginLevel([@ EXCEPT !.fn = "checkLevelUp",
                                          !.args = <<o, n>>,
                                          !.k = 1], o)]
    /\ UNCHANGED <<config, fn, args, ret, frame, server>>

\* Faulty variant: pointsUsed is one variable of the module, which every
\* caller's loop reads and adds to.
CallLoopTest_shared(p) ==
    /\ calls[p].pc = "loop"
    /\ LET pointsNeeded == getPointsRequiredForLevelUp(calls[p].level)
           shared == CHOOSE q \in Callers : \A r \in Callers : q <= r
       IN  calls' =
               IF calls[shared].pointsUsed + pointsNeeded > calls[p].args[calls[p].k]
               THEN [calls EXCEPT ![p].pc = "levelled"]
               ELSE [calls EXCEPT ![shared].pointsUsed = @ + pointsNeeded,
                                  ![p].level = @ + 1]
    /\ UNCHANGED <<config, fn, args, ret, frame, server>>

\* One iteration of while (true) in the caller's own frame.
CallLoopTest(p) ==
    /\ calls[p].pc = "loop"
    /\ LET pointsNeeded == getPointsRequiredForLevelUp(calls[p].level)
       IN  calls' =
               IF calls[p].pointsUsed + pointsNeeded > calls[p].args[calls[p].k]
               THEN [calls EXCEPT ![p].pc = "levelled"]
               ELSE [calls EXCEPT ![p].pointsUsed = @ + pointsNeeded,
                                  ![p].level = @ + 1]
    /\ UNCHANGED <<config, fn, args, ret, frame, server>>

\* calculateLevelFromPoints hands the level to its caller.
CallDeliverLevel(p) ==
    /\ calls[p].pc = "levelled"
    /\ calls[p].fn = "calculateLevelFromPoints"
    /\ calls' = [calls EXCEPT ![p].ret = calls[p].level, ![p].pc = "done"]
    /\ UNCHANGED <<config, fn, args, ret, frame, server>>

\* The rest of getLevelProgress with the level as currentLevel.
CallReport(p) ==
    /\ calls[p].pc = "levelled"
    /\ calls[p].fn = "getLevelProgress"
    /\ calls' = [calls EXCEPT
                    ![p].ret = LevelProgressReport(calls[p].level, calls[p].args[1]),
                    ![p].pc = "done"]
    /\ UNCHANGED <<config, fn, args, ret, frame, server>>

\* checkLevelUp keeps the first level as oldLevel and calls
\* calculateLevelFromPoints(newPoints).
CallSecondLevel(p) ==
    /\ calls[p].pc = "levelled"
    /\ calls[p].fn = "checkLevelUp"
    /\ calls[p].k = 1
    /\ calls' = [calls EXCEPT ![p] =
                    BeginLevel([@ EXCEPT !.oldLevel = calls[p].level, !.k = 2],
                               calls[p].args[2])]
    /\ UNCHANGED <<config, fn, args, ret, frame, server>>

\* checkLevelUp's return statement, the second level being newLevel.
CallLevelUpReport(p) ==
    /\ calls[p].pc = "levelled"
    /\ calls[p].fn = "checkLevelUp"
    /\ calls[p].k = 2
    /\ calls' = [calls EXCEPT
                    ![p].ret = [leveledUp |-> calls[p].level > calls[p].oldLevel,
                                oldLevel |-> calls[p].oldLevel,
                                newLevel |-> calls[p].level,
                                levelsGained |-> calls[p].level - calls[p].oldLevel],
                    ![p].pc = "done"]
    /\ UNCHANGED <<config, fn, args, ret, frame, server>>

\* The caller has its result; the frame is gone.
CallReturn(p) ==
    /\ calls[p].pc = "done"
    /\ calls' = [calls EXCEPT ![p] = NoCall]
    /\ UNCHANGED <<config, fn, args, ret, frame, server>>

NextCalls ==
    \E p \in Callers :
        \/ BeginGetPointsRequiredForLevelUp(p)
        \/ BeginGetPointsRequiredForLevel(p)
        \/ CallSumStep(p)
        \/ BeginCalculateLevelFromPoints(p)
        \/ BeginGetLevelProgress(p)
        \/ BeginCheckLevelUp(p)
        \/ CallLoopTest(p)
        \/ CallDeliverLevel(p)
        \/ CallReport(p)
        \/ CallSecondLevel(p)
        \/ CallLevelUpReport(p)
        \/ CallReturn(p)

SpecCalls == Init /\ [][NextCalls]_vars

(***************************************************************************)
(* Properties of the leveling engine.                                      *)
(***************************************************************************)

\* C1: inverse consistency.  For every point total T >= 0 the level L that
\* calculateLevelFromPoints(T) returns satisfies
\* getPointsRequiredForLevel(L) <= T < getPointsRequiredForLevel(L+1);
\* 49 -> level 1, 50 -> level 2, 124 -> level 2, 125 -> level 3.
C1_InverseConsistency ==
    (fn = "calculateLevelFromPoints" /\ args[1] >= 0) =>
        /\ getPointsRequiredForLevel(ret) <= args[1]
        /\ args[1] < getPointsRequiredForLevel(ret + 1)
        /\ (args[1] = 49 => ret = 1)
        /\ (args[1] = 50 => ret = 2)
        /\ (args[1] = 124 => ret = 2)
        /\ (args[1] = 125 => ret = 3)

\* A level reached exactly at its cumulative threshold.
C1_Witness ==
    /\ fn = "calculateLevelFromPoints"
    /\ args[1] = 125
    /\ ret = 3
    /\ getPointsRequiredForLevel(ret) = args[1]

\* C2: getPointsRequiredForLevel returns 0, 50, 125, 238, 407 for the levels
\* 1, 2, 3, 4, 5.
C2_CumulativeTable ==
    (fn = "getPointsRequiredForLevel" /\ args[1] \in 1..5) =>
        ret = <<0, 50, 125, 238, 407>>[args[1]]

\* C3: for every level L >= 1, getPointsRequiredForLevelUp(L) is the exact
\* product BASE * GROWTH^(L-1) rounded down: ret <= 50 * 3^(L-1) / 2^(L-1) <
\* ret + 1; the step costs of levels 1..5 are 50, 75, 112, 168, 253.
C3_StepCostIsFloor ==
    (fn = "getPointsRequiredForLevelUp" /\ args[1] >= 1) =>
        LET n == args[1] - 1
        IN  /\ ret * Pow(MULTIPLIER_DEN, n) <= BASE_POINTS * Pow(MULTIPLIER_NUM, n)
            /\ BASE_POINTS * Pow(MULTIPLIER_NUM, n) < (ret + 1) * Pow(MULTIPLIER_DEN, n)
            /\ (args[1] <= 5 => ret = <<50, 75, 112, 168, 253>>[args[1]])

\* A step cost whose exact product, 112.5, is not an integer.
C3_Witness ==
    /\ fn = "getPointsRequiredForLevelUp"
    /\ args[1] = 3
    /\ ret = 112

\* C4: monotonicity.  For all 0 <= a <= b,
\* calculateLevelFromPoints(a) <= calculateLevelFromPoints(b).
C4_Monotonic ==
    (fn = "calculateLevelFromPoints" /\ args[1] >= 0) =>
        \A b \in args[1]..MaxPoints : ret <= calculateLevelFromPoints(b)

\* A total below which the level is lower and above which it is higher.
C4_Witness ==
    /\ fn = "calculateLevelFromPoints"
    /\ args[1] = 60
    /\ ret = 2
    /\ calculateLevelFromPoints(0) < ret
    /\ ret < calculateLevelFromPoints(MaxPoints)

\* C5: getPointsRequiredForLevel(level) is a non-negative integer for every
\* level and strictly increasing on the levels >= 1.
C5_CumulativeIncreasing ==
    fn = "getPointsRequiredForLevel" =>
        /\ ret \in Nat
        /\ \A L1 \in 1..(args[1] - 1) : getPointsRequiredForLevel(L1) < ret

\* The cumulative cost of a level >= 2, above the cost of level 1.
C5_Witness ==
    /\ fn = "getPointsRequiredForLevel"
    /\ args[1] = 2
    /\ ret > getPointsRequiredForLevel(1)

\* C6: zero floor.  getPointsRequiredForLevel(level) = 0 for every
\* level <= 1, and calculateLevelFromPoints(0) = 1.
C6_ZeroFloor ==
    /\ (fn = "getPointsRequiredForLevel" /\ args[1] <= 1) => ret = 0
    /\ (fn = "calculateLevelFromPoints" /\ args[1] = 0) => ret = 1

\* The cumulative cost asked for a negative level.
C6_Witness ==
    /\ fn = "getPointsRequiredForLevel"
    /\ args[1] < 0
    /\ ret = 0

\* C7: negative floor.  calculateLevelFromPoints returns 1 for every
\* negative total, and an integer >= 1 for every total.
C7_NegativeFloor ==
    fn = "calculateLevelFromPoints" =>
        /\ ret \in Nat
        /\ ret >= 1
        /\ (args[1] < 0 => ret = 1)

\* The level of the total -5.
C7_Witness ==
    /\ fn = "calculateLevelFromPoints"
    /\ args[1] = 0 - 5
    /\ ret = 1

\* C8: for every negative total, getLevelProgress reports level 1 with zero
\* progress: currentLevel = 1, pointsInCurrentLevel = 0, progressPercentage = 0.
C8_NegativeZeroProgress ==
    (fn = "getLevelProgress" /\ args[1] < 0) =>
        /\ ret.currentLevel = 1
        /\ ret.pointsInCurrentLevel = 0
        /\ ret.progressPercentage = 0

\* C9: progress bounds.  For every total T >= 0, progressPercentage is
\* between 0 and 100 and pointsToNextLevel >= 0.
C9_ProgressBounds ==
    (fn = "getLevelProgress" /\ args[1] >= 0) =>
        /\ 0 <= ret.progressPercentage
        /\ ret.progressPercentage <= 100
        /\ ret.pointsToNextLevel >= 0

\* The progress of a total one point short of level 3.
C9_Witness ==
    /\ fn = "getLevelProgress"
    /\ args[1] = 124
    /\ ret.progressPercentage = 98
    /\ ret.pointsToNextLevel = 1

\* C10: for every total T >= 0, getLevelProgress(T) has
\* currentLevel = calculateLevelFromPoints(T), totalPoints = T,
\* pointsInCurrentLevel = T - getPointsRequiredForLevel(currentLevel),
\* pointsNeededForNextLevel = getPointsRequiredForLevelUp(currentLevel) and
\* pointsInCurrentLevel + pointsToNextLevel = pointsNeededForNextLevel;
\* T = 100 gives level 2, 50 points in the level, 75 needed, 66 percent and
\* 25 points to the next level.
C10_ProgressFields ==
    (fn = "getLevelProgress" /\ args[1] >= 0) =>
        /\ ret.currentLevel = calculateLevelFromPoints(args[1])
        /\ ret.totalPoints = args[1]
        /\ ret.pointsInCurrentLevel =
               args[1] - getPointsRequiredForLevel(ret.currentLevel)
        /\ ret.pointsNeededForNextLevel = getPointsRequiredForLevelUp(ret.currentLevel)
        /\ ret.pointsInCurrentLevel + ret.pointsToNextLevel = ret.pointsNeededForNextLevel
        /\ (args[1] = 100 =>
               ret = [currentLevel |-> 2,
                      totalPoints |-> 100,
                      pointsInCurrentLevel |-> 50,
                      pointsNeededForNextLevel |-> 75,
                      progressPercentage |-> 66,
                      pointsToNextLevel |-> 25])

\* The progress report of the total 100.
C10_Witness ==
    /\ fn = "getLevelProgress"
    /\ args[1] = 100
    /\ ret.currentLevel = 2
    /\ ret.progressPercentage = 66

\* C11: for every total T >= 0, progressPercentage is the exact integer
\* floor(100 * pointsInCurrentLevel / pointsNeededForNextLevel); 29 of 50
\* points gives 58.
C11_ExactPercentage ==
    (fn = "getLevelProgress" /\ args[1] >= 0) =>
        ret.progressPercentage =
            (100 * ret.pointsInCurrentLevel) \div ret.pointsNeededForNextLevel

\* C12: level-up additivity.  For all 0 <= a <= b, checkLevelUp(a, b) has
\* oldLevel = calculateLevelFromPoints(a), newLevel =
\* calculateLevelFromPoints(b), levelsGained = newLevel - oldLevel and
\* leveledUp exactly when levelsGained > 0; checkLevelUp(40, 60) is 1 -> 2,
\* leveledUp, one level gained.
C12_LevelUpAdditivity ==
    (fn = "checkLevelUp" /\ 0 <= args[1] /\ args[1] <= args[2]) =>
        /\ ret.oldLevel = calculateLevelFromPoints(args[1])
        /\ ret.newLevel = calculateLevelFromPoints(args[2])
        /\ ret.levelsGained = ret.newLevel - ret.oldLevel
        /\ ret.leveledUp = (ret.levelsGained > 0)
        /\ (args = <<40, 60>> =>
               ret = [leveledUp |-> TRUE, oldLevel |-> 1, newLevel |-> 2,
                      levelsGained |-> 1])

\* The award from 40 to 60 points.
C12_Witness ==
    /\ fn = "checkLevelUp"
    /\ args = <<40, 60>>
    /\ ret.leveledUp
    /\ ret.levelsGained = 1

\* C13: checkLevelUp(0, 300) reports oldLevel = 1, newLevel = 5,
\* leveledUp = TRUE, levelsGained = 4.
C13_JumpToLevelFive ==
    (fn = "checkLevelUp" /\ args = <<0, 300>>) =>
        ret = [leveledUp |-> TRUE, oldLevel |-> 1, newLevel |-> 5, levelsGained |-> 4]

\* C13 as amended: checkLevelUp(0, 300) reports oldLevel = 1, newLevel = 4,
\* leveledUp = TRUE, levelsGained = 3: one award that gains several levels.
C13_JumpToLevelFour ==
    (fn = "checkLevelUp" /\ args = <<0, 300>>) =>
        ret = [leveledUp |-> TRUE, oldLevel |-> 1, newLevel |-> 4, levelsGained |-> 3]

\* The award from 0 to 300 points.
C13_Witness ==
    /\ fn = "checkLevelUp"
    /\ args = <<0, 300>>
    /\ ret.levelsGained > 1

\* C14: for every pair of totals, in either order, a report with
\* leveledUp = FALSE has levelsGained = 0; checkLevelUp(T, T) reports
\* leveledUp = FALSE and levelsGained = 0.
C14_NoNegativeGain ==
    fn = "checkLevelUp" =>
        /\ (~ret.leveledUp => ret.levelsGained = 0)
        /\ (args[1] = args[2] => ~ret.leveledUp /\ ret.levelsGained = 0)

\* C15: malformed input is rejected.  A call of calculateLevelFromPoints
\* with a total that is NaN or fractional fails with an InvalidInput error:
\* it never hands a level back to its caller.
C15_MalformedRejected ==
    ~(/\ pc = "done"
      /\ fn = "calculateLevelFromPoints"
      /\ config = ReferenceConfig
      /\ ~IsInteger(args[1]))

\* C16: termination.  With the reference constants the loop of
\* calculateLevelFromPoints exits for every finite total, after exactly as
\* many evaluations of its test as the level the call returns, and
\* pointsUsed never exceeds the total.
C16_EveryFiniteTotal ==
    /\ []((pc \in {"loop", "returned", "done"} /\ config = ReferenceConfig) =>
            (~args[1].nan =>
                /\ (tests > 0 => 2 * loopPointsUsed <= args[1].twice)
                /\ (pc # "loop" => tests = loopLevel)))
    /\ ((pc = "loop" /\ config = ReferenceConfig /\ ~args[1].nan) ~> (pc = "returned"))

\* C16 (amended): the same for every finite total that is not negative; a
\* negative total returns level 1 before the loop, with no evaluation.
C16_LoopTerminates ==
    /\ []((pc \in {"loop", "returned", "done"} /\ config = ReferenceConfig) =>
            ((~args[1].nan /\ ~JsLessThanZero(args[1])) =>
                /\ 2 * loopPointsUsed <= args[1].twice
                /\ (pc # "loop" => tests = loopLevel)))
    /\ ((pc = "loop" /\ config = ReferenceConfig /\ ~args[1].nan) ~> (pc = "returned"))

\* The loop left at level 4 for the total 300, after four tests.
C16_Witness ==
    /\ pc = "returned"
    /\ config = ReferenceConfig
    /\ args[1] = JsInteger(300)
    /\ loopLevel = 4
    /\ tests = 4
    /\ loopPointsUsed = 237

\* C18: the persisted level is a consistent cache.  Whenever no request is
\* between two of its statements, every kid's stored level is
\* calculateLevelFromPoints of the stored points; and every dashboard
\* response carries kid.level = levelProgress.currentLevel.
C18_LevelIsConsistentCache ==
    /\ (\A c \in Connections : requests[c].pc \in {"idle", "responded"}) =>
          \A k \in DOMAIN kids :
              kids[k].level = calculateLevelFromPoints(kids[k].points)
    /\ \A c \in Connections :
          (At(c, "dashboard", "responded") /\ requests[c].res.status = 200) =>
              requests[c].res.kid.level =
                  requests[c].res.levelProgress.currentLevel

\* C19: a successful completion of a task worth N by a kid whose persisted
\* total was T persists T + N and answers with
\* leveledUp = checkLevelUp(T, T + N).leveledUp and
\* newLevel = calculateLevelFromPoints(T + N).
C19_CompletionUsesEngine ==
    \A c \in Connections :
        (At(c, "complete", "responded") /\ requests[c].res.status = 200) =>
            LET T == requests[c].total
                N == requests[c].task.points
            IN  /\ requests[c].res.leveledUp = checkLevelUp(T, T + N).leveledUp
                /\ requests[c].res.newLevel = calculateLevelFromPoints(T + N)

\* C20: a kid's persisted point total never decreases in a step of the
\* server other than the UPDATE of a parent's reset-points or edit.
C20_PointsNeverDecrease ==
    [][\A k \in DOMAIN kids \cap DOMAIN kids' :
          kids'[k].points < kids[k].points =>
              \E c \in Connections :
                  /\ requests[c].op \in {"resetPoints", "putKid"}
                  /\ requests[c].pc = "update"
                  /\ requests'[c].pc # "update"]_vars

\* C23: the cumulative cost is the sum of the floored step costs.  At every
\* level L the loop of calculateLevelFromPoints reaches under the reference
\* constants, getPointsRequiredForLevel(L + 1) - getPointsRequiredForLevel(L)
\* is getPointsRequiredForLevelUp(L), and the pointsUsed accumulated so far
\* is getPointsRequiredForLevel(L).
C23_CumulativeIsSumOfSteps ==
    (pc \in {"loop", "returned"} /\ config = ReferenceConfig) =>
        /\ loopLevel >= 1
        /\ getPointsRequiredForLevel(loopLevel + 1)
              - getPointsRequiredForLevel(loopLevel)
                  = getPointsRequiredForLevelUp(loopLevel)
        /\ loopPointsUsed = getPointsRequiredForLevel(loopLevel)

\* The loop at level 4 with the costs of levels 1..3 used: 50 + 75 + 112.
C23_Witness ==
    /\ pc = "loop"
    /\ config = ReferenceConfig
    /\ loopLevel = 4
    /\ loopPointsUsed = 237
    /\ getPointsRequiredForLevel(4) = 237

\* C25: under the reference constants getPointsRequiredForLevelUp(L) >= 1
\* for every level L >= 1, and the divisor pointsNeededForNextLevel of
\* getLevelProgress is never 0 (it is at least 1) for any integer total.
C25_DivisorNeverZero ==
    /\ (fn = "getPointsRequiredForLevelUp" /\ args[1] >= 1) => ret >= 1
    /\ fn = "getLevelProgress" =>
          /\ ret.pointsNeededForNextLevel >= 1
          /\ ret.pointsNeededForNextLevel =
                getPointsRequiredForLevelUp(ret.currentLevel)

\* getLevelProgress(-3) divides by the step cost of level 1, 50.
C25_Witness ==
    /\ fn = "getLevelProgress"
    /\ args = <<0 - 3>>
    /\ config = ReferenceConfig
    /\ ret.currentLevel = 1
    /\ ret.pointsNeededForNextLevel = 50

\* C26: a kid's persisted point total is never negative, whatever the
\* interleaving of the requests.
C26_PointsNeverNegative ==
    \A k \in DOMAIN kids : kids[k].points >= 0

\* C27: each task awards its points at most once.  Of two requests that
\* complete the same task, at most one has added the task's points to the
\* kid's total, and at most one has answered with success.
C27_AwardedAtMostOnce ==
    \A c1 \in Connections, c2 \in Connections :
        (/\ c1 # c2
         /\ requests[c1].op = "complete"
         /\ requests[c2].op = "complete"
         /\ requests[c1].taskId = requests[c2].taskId) =>
            ~(/\ requests[c1].pc \in {"selectKid", "updateLevel", "responded"}
              /\ requests[c1].res.status \in {0, 200}
              /\ requests[c2].pc \in {"selectKid", "updateLevel", "responded"}
              /\ requests[c2].res.status \in {0, 200})

\* C28: the newTotalPoints of a successful completion is the kid's persisted
\* total after the award: the total before it plus task.points.
C28_NewTotalIsPersistedTotal ==
    \A c \in Connections :
        (At(c, "complete", "responded") /\ requests[c].res.status = 200) =>
            requests[c].res.newTotalPoints =
                requests[c].total + requests[c].task.points

\* C29: a redeem request whose reward costs more than the kid's points, as
\* its check reads them, is answered 400 'Not enough points' and writes
\* nothing: points and redemption records stay as they are.  Otherwise the
\* request goes on, takes exactly points_cost off the points in one step,
\* adds exactly one redemption record in the next, and answers 200 with
\* that cost; no other step of a redeem request writes, and a request that
\* is answered 200 found the kid's row at each of its statements, because
\* no step brings a deleted row back (a new row gets a new id).  points_cost is the cost in the
\* reward row that the request read.
C29_RedeemRejectsOrDeductsOnce ==
    [][/\ \A k \in DOMAIN kids' \ DOMAIN kids : k > sqlite_sequence.kids
       /\ \A c \in Connections :
            (requests[c].op = "redeem" /\ requests'[c] # requests[c]) =>
              LET k == requests[c].kidId
                  at == requests[c].pc
                  cost == requests[c].reward.points_cost
                  here == k \in DOMAIN kids
                  r == requests'[c]
              IN  /\ (at = "selectKid" /\ here /\ kids[k].points < cost) =>
                        /\ r.pc = "responded"
                        /\ r.res.status = 400
                        /\ r.res.error = "Not enough points"
                  /\ (at = "selectKid" /\ here /\ kids[k].points >= cost) =>
                        r.pc = "deduct"
                  /\ at = "deduct" => r.pc = "insert"
                  /\ at = "insert" => r.pc = "selectUpdated"
                  /\ at = "selectUpdated" =>
                        /\ r.pc = "responded"
                        /\ r.res.status = 200 <=> here
                        /\ here => /\ r.res.pointsCost = cost
                                   /\ r.res.remainingPoints = kids[k].points
                  /\ kids' =
                        IF at = "deduct" /\ here
                        THEN [kids EXCEPT ![k].points = @ - cost]
                        ELSE kids
                  /\ redemptions' =
                        IF at = "insert"
                        THEN Append(redemptions,
                                    [kid_id |-> k,
                                     reward_id |-> requests[c].rewardId])
                        ELSE redemptions
                  /\ UNCHANGED <<tasks, rewards>>]_vars

\* One redeem was refused for lack of points and another one went through:
\* one record, 30 points off the 50.
C29_Witness ==
    \E c1 \in Connections, c2 \in Connections :
        /\ At(c1, "redeem", "responded")
        /\ requests[c1].res.status = 400
        /\ requests[c1].kid.points < requests[c1].reward.points_cost
        /\ At(c2, "redeem", "responded")
        /\ requests[c2].res.status = 200
        /\ requests[c2].res.pointsCost = RewardCost
        /\ requests[c2].res.remainingPoints = 20
        /\ Len(redemptions) = 1
        /\ 1 \in DOMAIN kids
        /\ kids[1].points = 20

\* C22: the client's module mirrors the server's.  Whatever a call of the
\* server's getPointsRequiredForLevel, getPointsRequiredForLevelUp,
\* calculateLevelFromPoints or getLevelProgress returns, the client's
\* function returns for the same argument, and the two constants of the
\* server are those of the client.
C22_ClientMirrorsServer ==
    /\ config.BASE_POINTS = Client_BASE_POINTS
    /\ config.MULTIPLIER_NUM * Client_MULTIPLIER_DEN
          = Client_MULTIPLIER_NUM * config.MULTIPLIER_DEN
    /\ fn = "getPointsRequiredForLevel" =>
          ret = Client_getPointsRequiredForLevel(args[1])
    /\ fn = "getPointsRequiredForLevelUp" =>
          ret = Client_getPointsRequiredForLevelUp(args[1])
    /\ fn = "calculateLevelFromPoints" =>
          ret = Client_calculateLevelFromPoints(args[1])
    /\ fn = "getLevelProgress" =>
          ret = Client_getLevelProgress(args[1])

\* The server's getLevelProgress(300), level 4 with 63 of 168 points, is
\* what the client computes.
C22_Witness ==
    /\ fn = "getLevelProgress"
    /\ args = <<300>>
    /\ ret.currentLevel = 4
    /\ ret.pointsInCurrentLevel = 63
    /\ ret.progressPercentage = 37
    /\ Client_getLevelProgress(300) = ret

\* C30: a magic-link token is single-use.  Of the verify-magic-link
\* requests that carry the same token at most one gets past the lookup of
\* the link and is answered with a JWT.
C30_TokenSingleUse ==
    \A c1 \in Connections, c2 \in Connections :
        (/\ c1 # c2
         /\ requests[c1].op = "verify"
         /\ requests[c2].op = "verify"
         /\ requests[c1].token = requests[c2].token) =>
            ~(/\ At(c1, "verify", "responded")
              /\ requests[c1].res.status = 200
              /\ At(c2, "verify", "responded")
              /\ requests[c2].res.status = 200)

\* What each function returns for its arguments, as the module computes it
\* when nothing else runs.
ResultOf(f) ==
    CASE f.fn = "getPointsRequiredForLevelUp" ->
             f.ret = getPointsRequiredForLevelUp(f.args[1])
      [] f.fn = "getPointsRequiredForLevel" ->
             f.ret = getPointsRequiredForLevel(f.args[1])
      [] f.fn = "calculateLevelFromPoints" ->
             f.ret = calculateLevelFromPoints(f.args[1])
      [] f.fn = "getLevelProgress" ->
             f.ret = getLevelProgress(f.args[1])
      [] f.fn = "checkLevelUp" ->
             f.ret = checkLevelUp(f.args[1], f.args[2])

\* C21: the engine is pure.  With any number of calls of the five functions
\* in progress at once and their statements interleaved in any order,
\* nothing outside the callers' own frames changes (the two constants, the
\* rows of the database and the requests stay as they were), every call
\* returns the value that its arguments alone determine, and two calls of
\* the same function on the same arguments return the same result.
C21_Pure ==
    /\ config = ReferenceConfig
    /\ ServerAtRest
    /\ \A p \in Callers : calls[p].pc = "done" => ResultOf(calls[p])
    /\ \A p \in Callers, q \in Callers :
        (/\ calls[p].pc = "done"
         /\ calls[q].pc = "done"
         /\ calls[p].fn = calls[q].fn
         /\ calls[p].args = calls[q].args) => calls[p].ret = calls[q].ret

\* One caller has the report of checkLevelUp(60, 130) while the other is in
\* the middle of the loop of getLevelProgress(130).
C21_Witness ==
    \E p \in Callers, q \in Callers :
        /\ p # q
        /\ calls[p].pc = "done"
        /\ calls[p].fn = "checkLevelUp"
        /\ calls[p].args = <<60, 130>>
        /\ calls[p].ret.levelsGained = 1
        /\ calls[q].pc = "loop"
        /\ calls[q].fn = "getLevelProgress"
        /\ calls[q].args = <<130>>
        /\ calls[q].level = 2

====
